---- MODULE Spec2Model ----
(***************************************************************************)
(* Model of the risk-scoring engine of the Android sandbox app             *)
(* (ThreatScoringEngine.analyzeAppRisk and its helpers) and of the         *)
(* JavaScript API service that calls it through the React Native bridge.   *)
(*                                                                         *)
(* Strings are TLA+ strings; substring tests, prefixes and lower-casing    *)
(* are computed character by character as the Kotlin code does.            *)
(* Confidence is kept in hundredths (0.70 is 70).                          *)
(***************************************************************************)
EXTENDS Integers, Sequences, FiniteSets, TLC

VARIABLES
    packageName,  \* the argument of analyzeAppRisk
    pm,           \* what the PackageManager answers for packageName
    clock,        \* System.currentTimeMillis(), in seconds
    result,       \* the map returned by the last analyzeAppRisk call
    netResult,    \* the map returned by the last NetworkAnalyzer.analyzeApp call
    call,         \* the last call of one of the engine's pure helpers, with its value
    api,          \* the call of a function of the API service under way
    home,         \* the state of the Home screen component
    android,      \* Platform.OS === 'android' && BehaviorModule
    installed,    \* the number of launcher apps on the device
    batchFn,      \* the batch function of the API service that was called
    batchPc,      \* where that call is: idle, awaitApps, awaitAll, done
    apps,         \* the list getInstalledApps resolved with
    calls,        \* calls[i]: state of the bridge call analyzeApp(apps[i].packageName)
    slots,        \* slots[i]: outcome of the async function mapped over apps[i]
    overtaken,    \* a bridge call settled while one issued before it was pending
    batchResult   \* the value the batch function resolved with

engineVars == <<packageName, pm, result>>
batchVars == <<android, installed, batchFn, batchPc, apps, calls, slots, overtaken,
               batchResult>>
otherVars == <<call, api, home>>
vars == <<packageName, pm, clock, result, netResult, android, installed, batchFn,
          batchPc, apps, calls, slots, overtaken, batchResult, call, api, home>>

(***************************************************************************)
(* Bounds of the model.                                                    *)
(***************************************************************************)
MaxTicks == 1     \* seconds the clock may advance
MaxApps == 6      \* most launcher apps installed on the device
MaxPresses == 2   \* most presses of the scan button whose request is pending

(***************************************************************************)
(* Companion-object constants of ThreatScoringEngine.                      *)
(***************************************************************************)
HIGH_RISK_PERMISSIONS ==
    { "android.permission.CAMERA",
      "android.permission.RECORD_AUDIO",
      "android.permission.ACCESS_FINE_LOCATION",
      "android.permission.ACCESS_COARSE_LOCATION",
      "android.permission.READ_CONTACTS",
      "android.permission.WRITE_CONTACTS",
      "android.permission.READ_SMS",
      "android.permission.SEND_SMS",
      "android.permission.READ_CALL_LOG",
      "android.permission.PROCESS_OUTGOING_CALLS" }

MEDIUM_RISK_PERMISSIONS ==
    { "android.permission.READ_EXTERNAL_STORAGE",
      "android.permission.WRITE_EXTERNAL_STORAGE",
      "android.permission.INTERNET",
      "android.permission.ACCESS_NETWORK_STATE",
      "android.permission.READ_PHONE_STATE",
      "android.permission.BLUETOOTH" }

PERM_ACCESSIBILITY == "android.permission.BIND_ACCESSIBILITY_SERVICE"
PERM_OVERLAY == "android.permission.SYSTEM_ALERT_WINDOW"
PERM_BOOT == "android.permission.RECEIVE_BOOT_COMPLETED"
PERM_INTERNET == "android.permission.INTERNET"

CAMERA_APPS == {"camera", "photo", "video", "scanner", "qr", "barcode"}
MESSAGING_APPS == {"message", "sms", "chat", "whatsapp", "telegram", "messenger", "signal"}
SOCIAL_APPS == {"social", "facebook", "instagram", "twitter", "tiktok", "snapchat"}
CALL_APPS == {"phone", "dialer", "call", "zoom", "meet", "teams", "skype"}
LOCATION_APPS == {"map", "navigation", "gps", "uber", "lyft", "delivery", "weather"}

TRUSTED_PREFIXES ==
    {"com.google.", "com.android.", "com.samsung.", "com.sec.", "com.miui.", "com.huawei."}

PLAY_STORE == "com.android.vending"

\* ApplicationInfo flag bits, kept as names
FLAG_SYSTEM == "FLAG_SYSTEM"
FLAG_DEBUGGABLE == "FLAG_DEBUGGABLE"
FLAG_TEST_ONLY == "FLAG_TEST_ONLY"

\* 2L * 365 * 24 * 60 * 60 * 1000 milliseconds.  Every time of the model is
\* a whole number of seconds and is stored in seconds (the millisecond
\* values exceed the checker's integers), so the factor 1000 is dropped
\* from both sides of the comparison.
twoYearsMs == 2 * 365 * 24 * 60 * 60

(***************************************************************************)
(* Kotlin string helpers.                                                  *)
(***************************************************************************)
\* String.contains(other)
Contains(s, k) ==
    \E i \in 1..(Len(s) - Len(k) + 1) : SubSeq(s, i, i + Len(k) - 1) = k

\* String.startsWith(prefix)
StartsWith(s, p) == Len(s) >= Len(p) /\ SubSeq(s, 1, Len(p)) = p

UpperToLower ==
    [ A |-> "a", B |-> "b", C |-> "c", D |-> "d", E |-> "e", F |-> "f",
      G |-> "g", H |-> "h", I |-> "i", J |-> "j", K |-> "k", L |-> "l",
      M |-> "m", N |-> "n", O |-> "o", P |-> "p", Q |-> "q", R |-> "r",
      S |-> "s", T |-> "t", U |-> "u", V |-> "v", W |-> "w", X |-> "x",
      Y |-> "y", Z |-> "z" ]

LowerChar(c) == IF c \in DOMAIN UpperToLower THEN UpperToLower[c] ELSE c

\* String.lowercase()
RECURSIVE Lowercase(_)
Lowercase(s) ==
    IF Len(s) = 0 THEN ""
    ELSE LowerChar(SubSeq(s, 1, 1)) \o Lowercase(SubSeq(s, 2, Len(s)))

Min(a, b) == IF a <= b THEN a ELSE b

\* the value of a lookup that threw and was caught, or of a null reference
Null == [isNull |-> TRUE]

\* Array.toSet(): a LinkedHashSet, first occurrences in array order
RECURSIVE toSet(_)
toSet(arr) ==
    IF arr = <<>> THEN <<>>
    ELSE LET rest == toSet(SubSeq(arr, 1, Len(arr) - 1))
             last == arr[Len(arr)]
         IN IF \E i \in 1..Len(rest) : rest[i] = last THEN rest
            ELSE Append(rest, last)

Elems(seq) == {seq[i] : i \in 1..Len(seq)}

\* Iterable.count { it in list } over a sequence
CountIn(seq, list) == Cardinality({i \in 1..Len(seq) : seq[i] \in list})

RECURSIVE SumSeq(_)
SumSeq(seq) == IF seq = <<>> THEN 0 ELSE seq[1] + SumSeq(Tail(seq))

\* String.substringAfterLast("."): the whole string when there is no dot
RECURSIVE substringAfterLastDot(_)
substringAfterLastDot(s) ==
    IF ~Contains(s, ".") THEN s
    ELSE LET i == CHOOSE j \in 1..Len(s) : SubSeq(s, j, j) = "."
         IN substringAfterLastDot(SubSeq(s, i + 1, Len(s)))

\* data class RiskFactor(category, description, points)
RiskFactor(category, description, points) ==
    [category |-> category, description |-> description, points |-> points]

\* String.format("%.1f", bytes / unit) for a unit that is a power of two:
\* the quotient is exact, and the formatter rounds half up
FormatOneDecimal(bytes, unit) ==
    LET tenths == (20 * bytes + unit) \div (2 * unit)
    IN ToString(tenths \div 10) \o "." \o ToString(tenths % 10)

formatFileSize(bytes) ==
    IF bytes >= 1024 * 1024 THEN FormatOneDecimal(bytes, 1024 * 1024) \o " MB"
    ELSE IF bytes >= 1024 THEN FormatOneDecimal(bytes, 1024) \o " KB"
    ELSE ToString(bytes) \o " B"

(***************************************************************************)
(* inferAppCategory: first matching keyword list wins.                     *)
(***************************************************************************)
\* a classifier that tries the messaging keywords before the camera keywords
inferAppCategory_MessagingFirst(pkg, appName) ==
    LET lowerPkg == Lowercase(pkg)
        lowerName == Lowercase(appName)
        has(k) == Contains(lowerPkg, k) \/ Contains(lowerName, k)
    IN  IF \E k \in MESSAGING_APPS : has(k) THEN "messaging"
        ELSE IF \E k \in CAMERA_APPS : has(k) THEN "camera"
        ELSE IF \E k \in SOCIAL_APPS : has(k) THEN "social"
        ELSE IF \E k \in CALL_APPS : has(k) THEN "communication"
        ELSE IF \E k \in LOCATION_APPS : has(k) THEN "location"
        ELSE IF has("game") THEN "game"
        ELSE IF has("flashlight") THEN "utility"
        ELSE IF has("calculator") THEN "utility"
        ELSE "unknown"

inferAppCategory(pkg, appName) ==
    LET lowerPkg == Lowercase(pkg)
        lowerName == Lowercase(appName)
        has(k) == Contains(lowerPkg, k) \/ Contains(lowerName, k)
    IN  IF \E k \in CAMERA_APPS : has(k) THEN "camera"
        ELSE IF \E k \in MESSAGING_APPS : has(k) THEN "messaging"
        ELSE IF \E k \in SOCIAL_APPS : has(k) THEN "social"
        ELSE IF \E k \in CALL_APPS : has(k) THEN "communication"
        ELSE IF \E k \in LOCATION_APPS : has(k) THEN "location"
        ELSE IF has("game") THEN "game"
        ELSE IF has("flashlight") THEN "utility"
        ELSE IF has("calculator") THEN "utility"
        ELSE "unknown"

(***************************************************************************)
(* isPermissionContextuallyAppropriate: first matching family decides.     *)
(***************************************************************************)
\* an appropriateness test that expects the camera of camera apps only
isPermissionContextuallyAppropriate_CameraOnly(permission, category) ==
    IF Contains(permission, "CAMERA")
        THEN category \in {"camera"}
    ELSE IF Contains(permission, "RECORD_AUDIO")
        THEN category \in {"camera", "communication", "social"}
    ELSE IF Contains(permission, "LOCATION")
        THEN category \in {"location", "social", "communication"}
    ELSE IF Contains(permission, "CONTACTS")
        THEN category \in {"messaging", "social", "communication"}
    ELSE IF Contains(permission, "SMS")
        THEN category \in {"messaging"}
    ELSE IF Contains(permission, "CALL_LOG")
        THEN category \in {"communication"}
    ELSE TRUE

isPermissionContextuallyAppropriate(permission, category) ==
    IF Contains(permission, "CAMERA")
        THEN category \in {"camera", "social", "communication", "messaging"}
    ELSE IF Contains(permission, "RECORD_AUDIO")
        THEN category \in {"camera", "communication", "social"}
    ELSE IF Contains(permission, "LOCATION")
        THEN category \in {"location", "social", "communication"}
    ELSE IF Contains(permission, "CONTACTS")
        THEN category \in {"messaging", "social", "communication"}
    ELSE IF Contains(permission, "SMS")
        THEN category \in {"messaging"}
    ELSE IF Contains(permission, "CALL_LOG")
        THEN category \in {"communication"}
    ELSE TRUE

(***************************************************************************)
(* detectSuspiciousCombos: the factors it appends, in order.  Its return   *)
(* value hasSuspiciousCombo is "appended at least one".                    *)
(***************************************************************************)
\* a detector that stops at the first pattern it finds
detectSuspiciousCombos_FirstOnly(permissions, category) ==
    LET any(k) == \E i \in 1..Len(permissions) : Contains(permissions[i], k)
        hasInternet == any("INTERNET")
        hasSms == any("SMS")
        hasContacts == any("CONTACTS")
        hasCallLog == any("CALL_LOG")
        hasCamera == any("CAMERA")
        hasAudio == any("RECORD_AUDIO")
        hasLocation == any("LOCATION")
    IN  IF hasSms /\ hasInternet /\ category # "messaging"
        THEN <<RiskFactor("Suspicious Combo",
                  "SMS + Internet access (not a messaging app)", 35)>>
        ELSE IF hasContacts /\ hasSms /\ hasInternet
                /\ category \notin {"messaging", "social"}
        THEN <<RiskFactor("Suspicious Combo",
                  "Contacts + SMS + Internet (data exfiltration pattern)", 35)>>
        ELSE IF hasCallLog /\ hasSms /\ hasInternet /\ category # "communication"
        THEN <<RiskFactor("Suspicious Combo",
                  "Call Log + SMS + Internet (spyware pattern)", 35)>>
        ELSE IF hasCamera /\ hasAudio /\ hasLocation /\ hasContacts
                /\ category \notin {"social", "communication"}
        THEN <<RiskFactor("Suspicious Combo",
                  "Camera + Microphone + Location + Contacts (surveillance pattern)", 35)>>
        ELSE <<>>

detectSuspiciousCombos(permissions, category) ==
    LET any(k) == \E i \in 1..Len(permissions) : Contains(permissions[i], k)
        hasInternet == any("INTERNET")
        hasSms == any("SMS")
        hasContacts == any("CONTACTS")
        hasCallLog == any("CALL_LOG")
        hasCamera == any("CAMERA")
        hasAudio == any("RECORD_AUDIO")
        hasLocation == any("LOCATION")
        f1 == IF hasSms /\ hasInternet /\ category # "messaging"
              THEN <<RiskFactor("Suspicious Combo",
                        "SMS + Internet access (not a messaging app)", 35)>>
              ELSE <<>>
        f2 == IF hasContacts /\ hasSms /\ hasInternet
                 /\ category \notin {"messaging", "social"}
              THEN <<RiskFactor("Suspicious Combo",
                        "Contacts + SMS + Internet (data exfiltration pattern)", 35)>>
              ELSE <<>>
        f3 == IF hasCallLog /\ hasSms /\ hasInternet /\ category # "communication"
              THEN <<RiskFactor("Suspicious Combo",
                        "Call Log + SMS + Internet (spyware pattern)", 35)>>
              ELSE <<>>
        f4 == IF hasCamera /\ hasAudio /\ hasLocation /\ hasContacts
                 /\ category \notin {"social", "communication"}
              THEN <<RiskFactor("Suspicious Combo",
                        "Camera + Microphone + Location + Contacts (surveillance pattern)", 35)>>
              ELSE <<>>
    IN  f1 \o f2 \o f3 \o f4

\* a trust test that forgets the privileged partition
IsTrusted_NoPrivApp(isSystemApp, isTrustedPublisher, isPrivApp) ==
    isSystemApp \/ isTrustedPublisher

\* val isTrusted = isSystemApp || isTrustedPublisher || isPrivApp
IsTrusted(isSystemApp, isTrustedPublisher, isPrivApp) ==
    isSystemApp \/ isTrustedPublisher \/ isPrivApp

\* a freshness test that counts exactly two years as outdated
IsOutdated_AtLeast(lastUpdateTime, currentTime) ==
    lastUpdateTime > 0 /\ (currentTime - lastUpdateTime) >= twoYearsMs

\* val isOutdated = lastUpdateTime > 0 && (currentTime - lastUpdateTime) > twoYearsMs
IsOutdated(lastUpdateTime, currentTime) ==
    lastUpdateTime > 0 /\ (currentTime - lastUpdateTime) > twoYearsMs

(***************************************************************************)
(* The values analyzeAppRisk derives before scoring (lines 249-307), from  *)
(* the PackageManager answers pmv and the clock value now.                 *)
(***************************************************************************)
Locals(pkg, pmv, now) ==
    LET appInfo == pmv.appInfo            \* Null when getApplicationInfo threw
        packageInfo == pmv.packageInfo    \* Null when getPackageInfo threw
        permissions == IF packageInfo = Null THEN <<>>
                       ELSE toSet(packageInfo.requestedPermissions)
        isSystemApp == IF appInfo = Null THEN FALSE ELSE FLAG_SYSTEM \in appInfo.flags
        appName == IF appInfo = Null THEN pkg ELSE appInfo.label
        isTrustedPublisher == \E pre \in TRUSTED_PREFIXES : StartsWith(pkg, pre)
        isPrivApp == IF appInfo = Null THEN FALSE
                     ELSE Contains(appInfo.sourceDir, "/system/priv-app")
        \* <<>> is null (the lookup threw or returned null), <<s>> is s
        installerPackage == pmv.installerPackage
        isFromPlayStore == installerPackage = <<PLAY_STORE>>
        isSideloaded == installerPackage = <<>> \/ installerPackage = <<"">>
        targetSdk == IF appInfo = Null THEN 0 ELSE appInfo.targetSdkVersion
        lastUpdateTime == IF packageInfo = Null THEN 0 ELSE packageInfo.lastUpdateTime
    IN  [ permissions |-> permissions,
          isSystemApp |-> isSystemApp,
          appName |-> appName,
          appCategory |-> inferAppCategory(pkg, appName),
          isTrusted |-> IsTrusted(isSystemApp, isTrustedPublisher, isPrivApp),
          isFromPlayStore |-> isFromPlayStore,
          isSideloaded |-> isSideloaded,
          isThirdPartyStore |-> ~isFromPlayStore /\ ~isSideloaded /\ installerPackage # <<>>,
          isDebuggable |-> IF appInfo = Null THEN FALSE
                           ELSE FLAG_DEBUGGABLE \in appInfo.flags,
          isTestOnly |-> IF appInfo = Null THEN FALSE ELSE FLAG_TEST_ONLY \in appInfo.flags,
          targetSdk |-> targetSdk,
          lastUpdateTime |-> lastUpdateTime,
          currentTime |-> now,
          isOutdated |-> IsOutdated(lastUpdateTime, now),
          hasOldTargetSdk |-> targetSdk > 0 /\ targetSdk < 29,
          highRiskCount |-> CountIn(permissions, HIGH_RISK_PERMISSIONS),
          mediumRiskCount |-> CountIn(permissions, MEDIUM_RISK_PERMISSIONS),
          serviceCount |-> IF packageInfo = Null THEN 0 ELSE packageInfo.services,
          sourceDir |-> IF appInfo = Null THEN "" ELSE appInfo.sourceDir ]

(***************************************************************************)
(* Permission scoring with context awareness (lines 318-333).              *)
(***************************************************************************)
\* permission points that ignore the category of the app
PermissionPoints_NoContext(perm, category) ==
    IF perm \in HIGH_RISK_PERMISSIONS THEN 10
    ELSE IF perm \in MEDIUM_RISK_PERMISSIONS THEN 4
    ELSE 0

\* permission points that charge six for an expected MEDIUM permission
PermissionPoints_MediumSix(perm, category) ==
    LET isAppropriate == isPermissionContextuallyAppropriate(perm, category)
    IN  IF perm \in HIGH_RISK_PERMISSIONS THEN (IF isAppropriate THEN 10 ELSE 15)
        ELSE IF perm \in MEDIUM_RISK_PERMISSIONS THEN (IF isAppropriate THEN 6 ELSE 4)
        ELSE 0

\* the points one permission adds to riskScore
PermissionPoints(perm, category) ==
    LET isAppropriate == isPermissionContextuallyAppropriate(perm, category)
    IN  IF perm \in HIGH_RISK_PERMISSIONS THEN (IF isAppropriate THEN 10 ELSE 15)
        ELSE IF perm \in MEDIUM_RISK_PERMISSIONS THEN (IF isAppropriate THEN 4 ELSE 6)
        ELSE 0

\* a factor for every HIGH permission, unusual or not
PermissionFactor_Always(perm, category) ==
    IF perm \in HIGH_RISK_PERMISSIONS
    THEN <<RiskFactor("Permission",
             substringAfterLastDot(perm) \o " (unusual for " \o category \o " app)",
             PermissionPoints(perm, category))>>
    ELSE <<>>

\* the factor one permission appends: only a HIGH permission that is unusual
PermissionFactor(perm, category) ==
    IF perm \in HIGH_RISK_PERMISSIONS
       /\ ~isPermissionContextuallyAppropriate(perm, category)
    THEN <<RiskFactor("Permission",
             substringAfterLastDot(perm) \o " (unusual for " \o category \o " app)",
             PermissionPoints(perm, category))>>
    ELSE <<>>

PermissionScore(permissions, category) ==
    SumSeq([i \in 1..Len(permissions) |-> PermissionPoints(permissions[i], category)])

RECURSIVE PermissionFactors(_, _)
PermissionFactors(permissions, category) ==
    IF permissions = <<>> THEN <<>>
    ELSE PermissionFactor(Head(permissions), category)
           \o PermissionFactors(Tail(permissions), category)

(***************************************************************************)
(* Installation, build, platform and runtime signals (lines 341-399):      *)
(* each appends a factor and adds the factor's points to riskScore.        *)
(***************************************************************************)
\* a sideload bonus that does not look at the permissions
SideloadPoints_AlwaysThirty(hasHighRiskPerms) == 30

\* a sideload bonus that is dropped once high-risk permissions are scored
SideloadPoints_Dropped(hasHighRiskPerms) == IF hasHighRiskPerms THEN 0 ELSE 20

\* val points = if (hasHighRiskPerms) 30 else 20
SideloadPoints(hasHighRiskPerms) == IF hasHighRiskPerms THEN 30 ELSE 20

\* installation signals that overlook third-party stores
InstallationFactors_NoThirdParty(L) ==
    LET hasHighRiskPerms == L.highRiskCount > 0
    IN  IF L.isSideloaded
        THEN <<RiskFactor("Installation",
                 "Sideloaded (not from Play Store)"
                   \o (IF hasHighRiskPerms THEN " with high-risk permissions" ELSE ""),
                 SideloadPoints(hasHighRiskPerms))>>
        ELSE <<>>

InstallationFactors(L) ==
    LET hasHighRiskPerms == L.highRiskCount > 0
    IN  IF L.isSideloaded
        THEN <<RiskFactor("Installation",
                 "Sideloaded (not from Play Store)"
                   \o (IF hasHighRiskPerms THEN " with high-risk permissions" ELSE ""),
                 SideloadPoints(hasHighRiskPerms))>>
        ELSE IF L.isThirdPartyStore
        THEN <<RiskFactor("Installation", "Installed from third-party store", 15)>>
        ELSE <<>>

\* build signals that count test-only only when the app is not debuggable
BuildFactors_TestOnlyUnlessDebuggable(L) ==
    IF L.isDebuggable
    THEN <<RiskFactor("Build", "App is debuggable (security vulnerability)", 30)>>
    ELSE IF L.isTestOnly THEN <<RiskFactor("Build", "Test-only build", 25)>>
    ELSE <<>>

BuildFactors(L) ==
    (IF L.isDebuggable
     THEN <<RiskFactor("Build", "App is debuggable (security vulnerability)", 30)>>
     ELSE <<>>)
    \o (IF L.isTestOnly THEN <<RiskFactor("Build", "Test-only build", 25)>> ELSE <<>>)

PlatformFactors(L) ==
    (IF L.hasOldTargetSdk
     THEN <<RiskFactor("Platform",
              "Targets outdated Android (SDK " \o ToString(L.targetSdk) \o " < 29)", 15)>>
     ELSE <<>>)
    \o (IF L.isOutdated
        THEN <<RiskFactor("Maintenance", "Not updated in over 2 years", 10)>>
        ELSE <<>>)

RuntimeFactors(L) ==
    LET perms == Elems(L.permissions)
    IN  (IF PERM_ACCESSIBILITY \in perms
         THEN <<RiskFactor("Runtime", "Uses Accessibility Service (can read screen)", 40)>>
         ELSE <<>>)
        \o (IF PERM_OVERLAY \in perms
            THEN <<RiskFactor("Runtime", "Can draw over other apps (overlay attacks)", 25)>>
            ELSE <<>>)
        \o (IF PERM_BOOT \in perms /\ PERM_INTERNET \in perms
            THEN <<RiskFactor("Runtime", "Auto-starts on boot with internet access", 15)>>
            ELSE <<>>)
        \o (IF L.serviceCount > 5
            THEN <<RiskFactor("Runtime",
                     "Excessive background services (" \o ToString(L.serviceCount) \o ")",
                     10)>>
            ELSE <<>>)

\* the factors whose points are added to riskScore when they are appended
ScoredFactors(L) ==
    InstallationFactors(L) \o BuildFactors(L) \o PlatformFactors(L) \o RuntimeFactors(L)

\* a score that is never capped
CapScore_NoCap(score) == score

\* riskScore = minOf(100, riskScore)
CapScore(score) == Min(100, score)

\* riskScore as accumulated over lines 309-400, before the cap
RawScore(L) ==
    IF L.isTrusted THEN 0
    ELSE LET scored == ScoredFactors(L)
         IN  PermissionScore(L.permissions, L.appCategory)
               + SumSeq([i \in 1..Len(scored) |-> scored[i].points])

\* factors of a trusted branch that does not skip the evaluators
RiskFactors_TrustedAlsoScored(L) ==
    (IF L.isTrusted
     THEN <<RiskFactor("Trusted", "System or verified publisher app", 0)>>
     ELSE <<>>)
    \o PermissionFactors(L.permissions, L.appCategory)
    \o detectSuspiciousCombos(L.permissions, L.appCategory)
    \o ScoredFactors(L)

\* factors with the suspicious combos appended after the other signals
RiskFactors_CombosLast(L) ==
    IF L.isTrusted
    THEN <<RiskFactor("Trusted", "System or verified publisher app", 0)>>
    ELSE PermissionFactors(L.permissions, L.appCategory)
           \o ScoredFactors(L)
           \o detectSuspiciousCombos(L.permissions, L.appCategory)

\* riskFactors as accumulated over lines 312-400
RiskFactors(L) ==
    IF L.isTrusted
    THEN <<RiskFactor("Trusted", "System or verified publisher app", 0)>>
    ELSE PermissionFactors(L.permissions, L.appCategory)
           \o detectSuspiciousCombos(L.permissions, L.appCategory)
           \o ScoredFactors(L)

\* a forceHigh that is set by one matched combo and cleared by a second
ForceHigh_SingleCombo(L) ==
    /\ ~L.isTrusted
    /\ LET hasSuspiciousCombo ==
               Len(detectSuspiciousCombos(L.permissions, L.appCategory)) = 1
       IN  \/ hasSuspiciousCombo
           \/ L.isDebuggable /\ (L.isSideloaded \/ hasSuspiciousCombo)

\* forceHigh as set at lines 336-339 and 356-358
ForceHigh(L) ==
    /\ ~L.isTrusted
    /\ LET hasSuspiciousCombo ==
               detectSuspiciousCombos(L.permissions, L.appCategory) # <<>>
       IN  \/ hasSuspiciousCombo
           \/ L.isDebuggable /\ (L.isSideloaded \/ hasSuspiciousCombo)

\* a level that ignores forceHigh
RiskLevelOf_NoForce(isTrusted, forceHigh, riskScore) ==
    IF isTrusted THEN "LOW"
    ELSE IF riskScore >= 45 THEN "HIGH"
    ELSE IF riskScore >= 20 THEN "MEDIUM"
    ELSE "LOW"

\* a level whose HIGH threshold is 40
RiskLevelOf_High40(isTrusted, forceHigh, riskScore) ==
    IF isTrusted THEN "LOW"
    ELSE IF forceHigh THEN "HIGH"
    ELSE IF riskScore >= 40 THEN "HIGH"
    ELSE IF riskScore >= 20 THEN "MEDIUM"
    ELSE "LOW"

\* a level whose MEDIUM threshold is exclusive
RiskLevelOf_Strict20(isTrusted, forceHigh, riskScore) ==
    IF isTrusted THEN "LOW"
    ELSE IF forceHigh THEN "HIGH"
    ELSE IF riskScore >= 45 THEN "HIGH"
    ELSE IF riskScore > 20 THEN "MEDIUM"
    ELSE "LOW"

\* val riskLevel = when { isTrusted -> LOW; forceHigh -> HIGH; >= 45; >= 20; else }
RiskLevelOf(isTrusted, forceHigh, riskScore) ==
    IF isTrusted THEN "LOW"
    ELSE IF forceHigh THEN "HIGH"
    ELSE IF riskScore >= 45 THEN "HIGH"
    ELSE IF riskScore >= 20 THEN "MEDIUM"
    ELSE "LOW"

\* an action mapping that lost its MEDIUM branch
ActionOf_NoMonitor(riskLevel) ==
    IF riskLevel = "HIGH" THEN "REVIEW" ELSE "SAFE"

\* val action = when (riskLevel) { HIGH -> REVIEW; MEDIUM -> MONITOR; else SAFE }
ActionOf(riskLevel) ==
    IF riskLevel = "HIGH" THEN "REVIEW"
    ELSE IF riskLevel = "MEDIUM" THEN "MONITOR"
    ELSE "SAFE"

\* a confidence that is never capped
Confidence_NoCap(L) ==
    LET signalCount == Cardinality({i \in 1..3 :
                          <<~L.isSideloaded, L.targetSdk > 0, L.lastUpdateTime > 0>>[i]})
    IN  70 + Len(L.permissions) + signalCount * 5

\* a confidence that gives each signal a tenth
Confidence_SignalTenth(L) ==
    LET signalCount == Cardinality({i \in 1..3 :
                          <<~L.isSideloaded, L.targetSdk > 0, L.lastUpdateTime > 0>>[i]})
    IN  Min(99, 70 + Len(L.permissions) + signalCount * 10)

\* minOf(0.99, 0.70 + permissions.size * 0.01 + signalCount * 0.05), in hundredths
Confidence(L) ==
    LET signalCount == Cardinality({i \in 1..3 :
                          <<~L.isSideloaded, L.targetSdk > 0, L.lastUpdateTime > 0>>[i]})
    IN  Min(99, 70 + Len(L.permissions) + signalCount * 5)

(***************************************************************************)
(* analyzeAppRisk(packageName), given the PackageManager answers pmv, the  *)
(* clock value now read for the freshness check and the clock value        *)
(* stamp read when the result map is built.                                *)
(***************************************************************************)
analyzeAppRisk(pkg, pmv, now, stamp) ==
    LET L == Locals(pkg, pmv, now)
        riskFactors == RiskFactors(L)
        rawScore == RawScore(L)
        forceHigh == ForceHigh(L)
        riskScore == CapScore(rawScore)
        riskLevel == RiskLevelOf(L.isTrusted, forceHigh, riskScore)
        fileSize == IF L.sourceDir # "" THEN formatFileSize(pmv.fileLength) ELSE "Unknown"
    IN  [ id |-> pkg,
          fileName |-> L.appName,
          packageName |-> pkg,
          fileType |-> "apk",
          fileSize |-> fileSize,
          risk |-> riskLevel,
          confidence |-> Confidence(L),
          action |-> ActionOf(riskLevel),
          permissionCount |-> Len(L.permissions),
          highRiskPerms |-> L.highRiskCount,
          mediumRiskPerms |-> L.mediumRiskCount,
          scannedAt |-> stamp,
          isFromPlayStore |-> L.isFromPlayStore,
          isSideloaded |-> L.isSideloaded,
          isDebuggable |-> L.isDebuggable,
          isTestOnly |-> L.isTestOnly,
          targetSdk |-> L.targetSdk,
          isOutdated |-> L.isOutdated,
          riskScore |-> riskScore,
          appCategory |-> L.appCategory,
          isTrusted |-> L.isTrusted,
          riskIndicators |-> [i \in 1..Len(riskFactors) |->
              riskFactors[i].category \o ": " \o riskFactors[i].description
                  \o " (+" \o ToString(riskFactors[i].points) \o ")"],
          riskBreakdown |-> riskFactors,
          \* local variables of the call; not keys of the returned map
          forceHigh |-> forceHigh,
          rawScore |-> rawScore,
          currentTime |-> now ]

\* the keys of the map analyzeAppRisk returns
ResultKeys ==
    { "id", "fileName", "packageName", "fileType", "fileSize", "risk", "confidence",
      "action", "permissionCount", "highRiskPerms", "mediumRiskPerms", "scannedAt",
      "isFromPlayStore", "isSideloaded", "isDebuggable", "isTestOnly", "targetSdk",
      "isOutdated", "riskScore", "appCategory", "isTrusted", "riskIndicators",
      "riskBreakdown" }

\* the returned map of a call, without the locals
ResultMap(r) == [k \in ResultKeys |-> r[k]]

(***************************************************************************)
(* getDetailedPermissions and its helpers (lines 487-576): one map per     *)
(* requested permission.  The icon glyphs are named by what they depict.   *)
(***************************************************************************)
\* a category lookup that files every unlisted keyword under "System"
getPermissionCategory_System(permission) ==
    LET has(k) == Contains(permission, k)
    IN  IF has("LOCATION") THEN "Location"
        ELSE IF has("CAMERA") THEN "Camera"
        ELSE IF has("RECORD_AUDIO") \/ has("MICROPHONE") THEN "Microphone"
        ELSE IF has("CONTACTS") THEN "Contacts"
        ELSE IF has("SMS") \/ has("MMS") THEN "SMS"
        ELSE IF has("CALL") \/ has("PHONE") THEN "Phone"
        ELSE IF has("STORAGE") \/ has("EXTERNAL") THEN "Storage"
        ELSE IF has("INTERNET") \/ has("NETWORK") THEN "Network"
        ELSE IF has("BLUETOOTH") THEN "Bluetooth"
        ELSE IF has("CALENDAR") THEN "Calendar"
        ELSE IF has("SENSOR") \/ has("BODY") THEN "Sensors"
        ELSE IF has("ACCESSIBILITY") THEN "Accessibility"
        ELSE IF has("ALERT_WINDOW") THEN "Overlay"
        ELSE "System"

\* the first keyword the identifier contains names the category
getPermissionCategory(permission) ==
    LET has(k) == Contains(permission, k)
    IN  IF has("LOCATION") THEN "Location"
        ELSE IF has("CAMERA") THEN "Camera"
        ELSE IF has("RECORD_AUDIO") \/ has("MICROPHONE") THEN "Microphone"
        ELSE IF has("CONTACTS") THEN "Contacts"
        ELSE IF has("SMS") \/ has("MMS") THEN "SMS"
        ELSE IF has("CALL") \/ has("PHONE") THEN "Phone"
        ELSE IF has("STORAGE") \/ has("EXTERNAL") THEN "Storage"
        ELSE IF has("INTERNET") \/ has("NETWORK") THEN "Network"
        ELSE IF has("BLUETOOTH") THEN "Bluetooth"
        ELSE IF has("CALENDAR") THEN "Calendar"
        ELSE IF has("SENSOR") \/ has("BODY") THEN "Sensors"
        ELSE IF has("ACCESSIBILITY") THEN "Accessibility"
        ELSE IF has("ALERT_WINDOW") THEN "Overlay"
        ELSE "Other"

\* the description table, keyed by the whole identifier
PermissionDescriptions ==
    ( "android.permission.CAMERA" :> "Take photos and videos" ) @@
    ( "android.permission.RECORD_AUDIO" :> "Record audio from microphone" ) @@
    ( "android.permission.ACCESS_FINE_LOCATION" :> "Access precise GPS location" ) @@
    ( "android.permission.ACCESS_COARSE_LOCATION" :> "Access approximate location" ) @@
    ( "android.permission.READ_CONTACTS" :> "Read your contacts" ) @@
    ( "android.permission.WRITE_CONTACTS" :> "Modify your contacts" ) @@
    ( "android.permission.READ_SMS" :> "Read your text messages" ) @@
    ( "android.permission.SEND_SMS" :> "Send text messages" ) @@
    ( "android.permission.READ_CALL_LOG" :> "Read call history" ) @@
    ( "android.permission.PROCESS_OUTGOING_CALLS" :> "Monitor outgoing calls" ) @@
    ( "android.permission.READ_EXTERNAL_STORAGE" :> "Read files from storage" ) @@
    ( "android.permission.WRITE_EXTERNAL_STORAGE" :> "Write files to storage" ) @@
    ( "android.permission.INTERNET" :> "Full network access" ) @@
    ( "android.permission.ACCESS_NETWORK_STATE" :> "View network connections" ) @@
    ( "android.permission.READ_PHONE_STATE" :> "Read phone status and identity" ) @@
    ( "android.permission.BLUETOOTH" :> "Pair with Bluetooth devices" ) @@
    ( "android.permission.BIND_ACCESSIBILITY_SERVICE" :> "Read and control screen content" ) @@
    ( "android.permission.SYSTEM_ALERT_WINDOW" :> "Draw over other apps" ) @@
    ( "android.permission.RECEIVE_BOOT_COMPLETED" :> "Start at device boot" )

getPermissionDescription(permission) ==
    IF permission \in DOMAIN PermissionDescriptions
    THEN PermissionDescriptions[permission]
    ELSE "System permission"

getPermissionIcon(category) ==
    IF category = "Location" THEN "round pushpin"
    ELSE IF category = "Camera" THEN "camera"
    ELSE IF category = "Microphone" THEN "microphone"
    ELSE IF category = "Contacts" THEN "busts in silhouette"
    ELSE IF category = "SMS" THEN "speech balloon"
    ELSE IF category = "Phone" THEN "telephone receiver"
    ELSE IF category = "Storage" THEN "floppy disk"
    ELSE IF category = "Network" THEN "globe with meridians"
    ELSE IF category = "Bluetooth" THEN "antenna with bars"
    ELSE IF category = "Calendar" THEN "calendar"
    ELSE IF category = "Sensors" THEN "bar chart"
    ELSE IF category = "Accessibility" THEN "wheelchair symbol"
    ELSE IF category = "Overlay" THEN "framed picture"
    ELSE "gear"

\* val riskLevel = when (perm) { in HIGH ... in MEDIUM ... else "LOW" }
PermissionTier(perm) ==
    IF perm \in HIGH_RISK_PERMISSIONS THEN "HIGH"
    ELSE IF perm \in MEDIUM_RISK_PERMISSIONS THEN "MEDIUM"
    ELSE "LOW"

\* the map built for one permission
PermissionDetail(perm) ==
    LET category == getPermissionCategory(perm)
    IN  [ permission |-> perm,
          shortName |-> substringAfterLastDot(perm),
          riskLevel |-> PermissionTier(perm),
          category |-> category,
          description |-> getPermissionDescription(perm),
          icon |-> getPermissionIcon(category) ]

\* getAppPermissions: the requested permissions, or none when the package
\* cannot be read
getAppPermissions(packageInfo) ==
    IF packageInfo = Null THEN <<>> ELSE packageInfo.requestedPermissions

getDetailedPermissions(packageInfo) ==
    LET permissions == getAppPermissions(packageInfo)
    IN  [i \in 1..Len(permissions) |-> PermissionDetail(permissions[i])]

(***************************************************************************)
(* The inputs the model draws from.                                        *)
(***************************************************************************)
\* packages and the label getApplicationLabel gives them
Packages == {"com.example.notes", "org.fast.chat", "com.android.camera"}

LabelOf(pkg) ==
    IF pkg = "com.example.notes" THEN "Notes"
    ELSE IF pkg = "org.fast.chat" THEN "Fast Chat"
    ELSE "Camera"

\* the requestedPermissions arrays of the manifests the model installs
PermArrays ==
    { <<>>,
      <<"android.permission.CAMERA">>,
      <<"android.permission.READ_SMS">>,
      <<"android.permission.INTERNET">>,
      <<"android.permission.VIBRATE">>,
      <<"android.permission.READ_SMS", "android.permission.INTERNET">>,
      <<"android.permission.RECEIVE_SMS", "android.permission.INTERNET">>,
      <<"android.permission.READ_CONTACTS", "android.permission.READ_CALL_LOG",
        "android.permission.SEND_SMS", "android.permission.INTERNET">>,
      <<"android.permission.CAMERA", "android.permission.RECORD_AUDIO",
        "android.permission.ACCESS_FINE_LOCATION", "android.permission.READ_CONTACTS">>,
      <<"android.permission.BIND_ACCESSIBILITY_SERVICE",
        "android.permission.SYSTEM_ALERT_WINDOW">>,
      <<"android.permission.RECEIVE_BOOT_COMPLETED", "android.permission.INTERNET",
        "android.permission.PROCESS_OUTGOING_CALLS">>,
      <<"android.permission.READ_SMS", "android.permission.CAMERA",
        "android.permission.INTERNET", "android.permission.READ_SMS">>,
      <<"android.permission.CAMERA", "android.permission.RECORD_AUDIO",
        "android.permission.ACCESS_FINE_LOCATION",
        "android.permission.ACCESS_COARSE_LOCATION",
        "android.permission.READ_CONTACTS", "android.permission.WRITE_CONTACTS",
        "android.permission.READ_SMS", "android.permission.SEND_SMS",
        "android.permission.READ_CALL_LOG", "android.permission.PROCESS_OUTGOING_CALLS",
        "android.permission.READ_EXTERNAL_STORAGE",
        "android.permission.WRITE_EXTERNAL_STORAGE", "android.permission.INTERNET",
        "android.permission.ACCESS_NETWORK_STATE", "android.permission.READ_PHONE_STATE",
        "android.permission.BLUETOOTH">> }

LastUpdate == 1700000000               \* an update time, seconds since the epoch
StartTime == LastUpdate + twoYearsMs   \* the last instant at which it is not outdated
EndTime == StartTime + MaxTicks
ApkLength == 13107200                  \* File(sourceDir).length()

AppInfos(pkg) ==
    [ flags : SUBSET {FLAG_SYSTEM, FLAG_DEBUGGABLE, FLAG_TEST_ONLY},
      label : {LabelOf(pkg)},
      sourceDir : {"/data/app/base.apk", "/system/priv-app/App/App.apk"},
      targetSdkVersion : {28, 29} ]

\* update times: never, outdated from StartTime + 1 on, not outdated up to EndTime
PackageInfos ==
    [ requestedPermissions : PermArrays,
      lastUpdateTime : {0, LastUpdate, LastUpdate + MaxTicks},
      services : {5, 6} ]

\* installingPackageName: <<>> when the lookup threw or returned null
InstallerPackages == {<<>>, <<"">>, <<PLAY_STORE>>, <<"com.other.store">>}

\* the PackageManager answers for one package: Null where the lookup throws
PmAnswers(pkg) ==
    [ appInfo : {Null} \cup AppInfos(pkg),
      packageInfo : {Null} \cup PackageInfos,
      installerPackage : InstallerPackages,
      fileLength : {ApkLength} ]

\* no helper has been called on its own
OtherIdle ==
    /\ call = Null
    /\ api = Null
    /\ home = Null

\* no batch function of the API service is running
BatchIdle ==
    /\ android = TRUE
    /\ installed = 0
    /\ batchFn = "none"
    /\ batchPc = "idle"
    /\ apps = <<>>
    /\ calls = <<>>
    /\ slots = <<>>
    /\ overtaken = FALSE
    /\ batchResult = Null

\* one call on any package in any state of the device, at the end of the
\* clock window
Init ==
    /\ packageName \in Packages
    /\ pm \in PmAnswers(packageName)
    /\ clock = EndTime
    /\ result = Null
    /\ netResult = Null
    /\ OtherIdle
    /\ BatchIdle

\* repeated calls while the clock advances, on apps with plain build flags
\* and at most two permissions
InitClock ==
    /\ packageName \in Packages
    /\ pm \in {a \in PmAnswers(packageName) :
                 /\ a.appInfo # Null => a.appInfo.flags = {}
                 /\ a.packageInfo # Null => Len(a.packageInfo.requestedPermissions) <= 2}
    /\ clock = StartTime
    /\ result = Null
    /\ netResult = Null
    /\ OtherIdle
    /\ BatchIdle

(***************************************************************************)
(* analyzeAppRisk is called: the clock is read for the freshness check     *)
(* and read again, possibly later, for scannedAt.                          *)
(***************************************************************************)
AnalyzeAppRisk ==
    /\ \E stamp \in clock..EndTime :
          /\ result' = analyzeAppRisk(packageName, pm, clock, stamp)
          /\ clock' = stamp
    /\ UNCHANGED <<packageName, pm>>
    /\ UNCHANGED <<batchVars, netResult, otherVars>>

\* time passes
Tick ==
    /\ clock < EndTime
    /\ clock' = clock + 1
    /\ UNCHANGED <<packageName, pm, result>>
    /\ UNCHANGED <<batchVars, netResult, otherVars>>

\* one call on an installed, recently updated user app whose lookups all
\* succeed: any manifest, any installer, debuggable or not
InitInstalled ==
    /\ packageName \in Packages
    /\ pm \in {a \in PmAnswers(packageName) :
                 /\ a.appInfo # Null
                 /\ a.packageInfo # Null
                 /\ a.appInfo.flags \subseteq {FLAG_DEBUGGABLE}
                 /\ a.appInfo.sourceDir = "/data/app/base.apk"
                 /\ a.packageInfo.lastUpdateTime = LastUpdate + MaxTicks
                 /\ a.packageInfo.services = 5}
    /\ clock = EndTime
    /\ result = Null
    /\ netResult = Null
    /\ OtherIdle
    /\ BatchIdle

Next == AnalyzeAppRisk

Spec == Init /\ [][Next]_vars

SpecInstalled == InitInstalled /\ [][Next]_vars

NextClock == AnalyzeAppRisk \/ Tick

SpecClock == InitClock /\ [][NextClock]_vars

(***************************************************************************)
(* The batch functions of the API service, getRecentFiles and              *)
(* getScanHistory: the installed apps are listed, one asynchronous         *)
(* function per app calls the bridge, the bridge calls settle in any order *)
(* and Promise.all collects the outcomes.  The hash field of the records,  *)
(* a rendering of String.hashCode, is left out.  Instants are kept as      *)
(* numbers of seconds; toISOString only renders them.                      *)
(***************************************************************************)
\* the launcher apps of the device, user apps before system apps
DevicePackages ==
    << "com.example.notes", "org.fast.chat", "com.android.camera", "com.example.maps",
       "com.google.android.dialer", "com.android.settings", "com.samsung.gallery" >>

DevicePackage(i) ==
    IF i <= Len(DevicePackages) THEN DevicePackages[i]
    ELSE "com.example.app" \o ToString(i)

DeviceIsSystem(i) == i > 4

DevicePermissions(i) ==
    IF i % 4 = 1 THEN <<"android.permission.READ_SMS", "android.permission.INTERNET">>
    ELSE IF i % 4 = 2 THEN <<"android.permission.CAMERA", "android.permission.RECORD_AUDIO",
                             "android.permission.READ_CONTACTS">>
    ELSE IF i % 4 = 3 THEN <<"android.permission.CAMERA">>
    ELSE <<>>

\* what the PackageManager answers for the i-th launcher app
DeviceAnswers(i) ==
    [ appInfo |-> [ flags |-> (IF DeviceIsSystem(i) THEN {FLAG_SYSTEM} ELSE {})
                                 \cup (IF i = 2 THEN {FLAG_DEBUGGABLE} ELSE {}),
                    label |-> "App " \o ToString(i),
                    sourceDir |-> "/data/app/base.apk",
                    targetSdkVersion |-> IF i % 2 = 0 THEN 28 ELSE 29 ],
      packageInfo |-> [ requestedPermissions |-> DevicePermissions(i),
                        lastUpdateTime |-> LastUpdate,
                        services |-> 5 ],
      installerPackage |-> IF i % 2 = 1 THEN <<PLAY_STORE>> ELSE <<>>,
      fileLength |-> ApkLength ]

\* the answers for a package that is not installed: every lookup throws
NotInstalled ==
    [ appInfo |-> Null, packageInfo |-> Null, installerPackage |-> <<>>,
      fileLength |-> 0 ]

\* the answers for a package on a device with n launcher apps
DevicePm(pkg, n) ==
    IF \E i \in 1..n : DevicePackage(i) = pkg
    THEN DeviceAnswers(CHOOSE i \in 1..n : DevicePackage(i) = pkg)
    ELSE NotInstalled

\* ThreatScoringEngine.listInstalledApps on a device with n launcher apps
listInstalledApps(n) ==
    [ i \in 1..n |->
        [ id |-> DevicePackage(i),
          fileName |-> "App " \o ToString(i),
          packageName |-> DevicePackage(i),
          fileType |-> "apk",
          fileSize |-> formatFileSize(ApkLength),
          isSystemApp |-> DeviceIsSystem(i),
          iconBase64 |-> IF i % 3 = 0 THEN "" ELSE "icon" \o ToString(i) ] ]

getMockApps(now) ==
    << [ id |-> "mock1",
         fileName |-> "Sample App",
         fileType |-> "apk",
         fileSize |-> "12.5 MB",
         packageName |-> "com.example.sample",
         risk |-> "LOW",
         confidence |-> 85,
         action |-> "ALLOWED",
         scannedAt |-> now ] >>

\* the map the bridge method analyzeApp resolves with
BridgeAnalyzeApp(pkg, n, now) ==
    ResultMap(analyzeAppRisk(pkg, DevicePm(pkg, n), now, now))

\* the state of a promise that has not settled
Pending == [state |-> "pending"]

Fulfilled(v) == [state |-> "fulfilled", value |-> v]

Rejected == [state |-> "rejected"]

\* the object the mapped function returns when the bridge call resolved;
\* index is the zero-based position, which only getScanHistory uses
AnalyzedEntry(fn, app, index, analysis, now) ==
    [ id |-> analysis.id,
      fileName |-> analysis.fileName,
      fileType |-> analysis.fileType,
      fileSize |-> analysis.fileSize,
      packageName |-> analysis.packageName,
      risk |-> analysis.risk,
      confidence |-> analysis.confidence,
      action |-> analysis.action,
      scannedAt |-> IF fn = "getScanHistory" THEN now - index * 3600 ELSE now,
      iconBase64 |-> IF "iconBase64" \in DOMAIN app THEN app.iconBase64 ELSE "" ]

DefaultKeys == {"risk", "confidence", "action", "scannedAt"}

\* { ...app, risk: 'LOW', confidence: 0.5, action: 'ALLOWED', scannedAt }
DefaultEntry(app, now) ==
    [ k \in DOMAIN app \cup DefaultKeys |->
        IF k = "risk" THEN "LOW"
        ELSE IF k = "confidence" THEN 50
        ELSE IF k = "action" THEN "ALLOWED"
        ELSE IF k = "scannedAt" THEN now
        ELSE app[k] ]

\* the outcome of the mapped function when the bridge call rejected: the
\* inner catch turns the rejection into a default entry
OnAnalyzeRejected_Propagates(app, now) == Rejected
OnAnalyzeRejected(app, now) == Fulfilled(DefaultEntry(app, now))

\* Promise.all over fulfilled promises: the values in input order
PromiseAll(promises) == [i \in 1..Len(promises) |-> promises[i].value]

\* the forEach that groups the entries by index
GroupByDate(entries) ==
    LET n == Len(entries)
    IN [ today |-> SubSeq(entries, 1, Min(5, n)),
         yesterday |-> SubSeq(entries, 6, Min(10, n)),
         earlier |-> SubSeq(entries, 11, n) ]

\* what the batch function resolves with once Promise.all has settled
BatchOutcome(fn, promises, now) ==
    IF \E i \in 1..Len(promises) : promises[i].state = "rejected"
    THEN IF fn = "getScanHistory"
         THEN [today |-> <<>>, yesterday |-> <<>>, earlier |-> <<>>]
         ELSE getMockApps(now)
    ELSE IF fn = "getScanHistory"
         THEN GroupByDate(PromiseAll(promises))
         ELSE PromiseAll(promises)

\* a batch function has been called and awaits getInstalledApps
InitBatch ==
    /\ packageName = "com.example.notes"
    /\ pm = NotInstalled
    /\ clock = StartTime
    /\ result = Null
    /\ netResult = Null
    /\ OtherIdle
    /\ android \in BOOLEAN
    /\ installed \in 0..MaxApps
    /\ batchFn \in {"getRecentFiles", "getScanHistory"}
    /\ batchPc = "awaitApps"
    /\ apps = <<>>
    /\ calls = <<>>
    /\ slots = <<>>
    /\ overtaken = FALSE
    /\ batchResult = Null

\* the mapped functions start: each calls the bridge and awaits
StartMap(list) ==
    /\ apps' = list
    /\ calls' = [i \in 1..Len(list) |-> "pending"]
    /\ slots' = [i \in 1..Len(list) |-> Pending]
    /\ batchPc' = "awaitAll"

\* the bridge resolves getInstalledApps with the launcher apps
GetInstalledAppsResolves ==
    /\ batchPc = "awaitApps"
    /\ android
    /\ StartMap(listInstalledApps(installed))
    /\ UNCHANGED <<otherVars, engineVars, netResult, clock, android, installed, batchFn, overtaken, batchResult>>

\* the bridge rejects getInstalledApps: the mock apps are analysed instead
GetInstalledAppsRejects ==
    /\ batchPc = "awaitApps"
    /\ android
    /\ StartMap(getMockApps(clock))
    /\ UNCHANGED <<otherVars, engineVars, netResult, clock, android, installed, batchFn, overtaken, batchResult>>

\* without the native module the mock apps are returned as they are
GetInstalledAppsMock ==
    /\ batchPc = "awaitApps"
    /\ ~android
    /\ apps' = getMockApps(clock)
    /\ calls' = [i \in 1..Len(apps') |-> "none"]
    /\ slots' = [i \in 1..Len(apps') |-> Fulfilled(apps'[i])]
    /\ batchPc' = "awaitAll"
    /\ UNCHANGED <<otherVars, engineVars, netResult, clock, android, installed, batchFn, overtaken, batchResult>>

\* the bridge call of the i-th app resolves and its mapped function returns
AnalyzeAppResolves(i) ==
    /\ batchPc = "awaitAll"
    /\ calls[i] = "pending"
    /\ calls' = [calls EXCEPT ![i] = "resolved"]
    /\ slots' = [slots EXCEPT ![i] =
                   Fulfilled(AnalyzedEntry(batchFn, apps[i], i - 1,
                       BridgeAnalyzeApp(apps[i].packageName, installed, clock), clock))]
    /\ overtaken' = (overtaken \/ \E j \in 1..(i - 1) : calls[j] = "pending")
    /\ UNCHANGED <<otherVars, engineVars, netResult, clock, android, installed, batchFn, batchPc, apps,
                   batchResult>>

\* the bridge call of the i-th app rejects
AnalyzeAppRejects(i) ==
    /\ batchPc = "awaitAll"
    /\ calls[i] = "pending"
    /\ calls' = [calls EXCEPT ![i] = "rejected"]
    /\ slots' = [slots EXCEPT ![i] = OnAnalyzeRejected(apps[i], clock)]
    /\ overtaken' = (overtaken \/ \E j \in 1..(i - 1) : calls[j] = "pending")
    /\ UNCHANGED <<otherVars, engineVars, netResult, clock, android, installed, batchFn, batchPc, apps,
                   batchResult>>

\* Promise.all settles and the batch function returns
PromiseAllSettles ==
    /\ batchPc = "awaitAll"
    /\ \/ \A i \in 1..Len(slots) : slots[i].state = "fulfilled"
       \/ \E i \in 1..Len(slots) : slots[i].state = "rejected"
    /\ batchResult' = BatchOutcome(batchFn, slots, clock)
    /\ batchPc' = "done"
    /\ UNCHANGED <<otherVars, engineVars, netResult, clock, android, installed, batchFn, apps, calls, slots,
                   overtaken>>

NextBatch ==
    \/ GetInstalledAppsResolves
    \/ GetInstalledAppsRejects
    \/ GetInstalledAppsMock
    \/ \E i \in 1..Len(apps) : AnalyzeAppResolves(i)
    \/ \E i \in 1..Len(apps) : AnalyzeAppRejects(i)
    \/ PromiseAllSettles

SpecBatch == InitBatch /\ [][NextBatch]_vars

(***************************************************************************)
(* NetworkAnalyzer.analyzeApp: the data-exfiltration risk of an app from   *)
(* its requested permissions.                                              *)
(***************************************************************************)
NETWORK_PERMISSIONS ==
    << "android.permission.INTERNET",
       "android.permission.ACCESS_NETWORK_STATE",
       "android.permission.ACCESS_WIFI_STATE",
       "android.permission.CHANGE_WIFI_STATE",
       "android.permission.CHANGE_NETWORK_STATE" >>

DATA_EXFIL_PERMISSIONS ==
    << "android.permission.READ_CONTACTS",
       "android.permission.READ_SMS",
       "android.permission.READ_CALL_LOG",
       "android.permission.ACCESS_FINE_LOCATION",
       "android.permission.ACCESS_COARSE_LOCATION",
       "android.permission.READ_EXTERNAL_STORAGE",
       "android.permission.CAMERA",
       "android.permission.RECORD_AUDIO",
       "android.permission.READ_PHONE_STATE" >>

\* permissions.filter { it in list }: the matching entries, repeats included
FilterIn(permissions, list) ==
    SelectSeq(permissions, LAMBDA p : p \in Elems(list))

buildNetworkCapabilityList(permissions) ==
    LET has(p) == p \in Elems(permissions)
        cap(p, name) == IF has(p) THEN <<name>> ELSE <<>>
    IN  cap("android.permission.INTERNET", "Internet Access")
        \o cap("android.permission.ACCESS_NETWORK_STATE", "Network State Monitoring")
        \o cap("android.permission.ACCESS_WIFI_STATE", "WiFi State Access")
        \o cap("android.permission.CHANGE_WIFI_STATE", "WiFi Control")
        \o cap("android.permission.CHANGE_NETWORK_STATE", "Network Control")
        \o cap("android.permission.BLUETOOTH", "Bluetooth Access")
        \o cap("android.permission.BLUETOOTH_ADMIN", "Bluetooth Control")
        \o cap("android.permission.NFC", "NFC Access")

\* the map of the catch branch: getPackageInfo threw
NetworkFailure ==
    [ hasInternet |-> FALSE,
      networkPermissions |-> <<>>,
      networkPermissionCount |-> 0,
      dataExfilPermissions |-> <<>>,
      dataExfilPermissionCount |-> 0,
      exfilRiskScore |-> 0,
      riskLevel |-> "UNKNOWN",
      usesCleartext |-> FALSE,
      canAccessWifi |-> FALSE,
      canChangeNetwork |-> FALSE,
      networkCapabilities |-> <<>> ]

\* NetworkAnalyzer.analyzeApp(packageName), given the PackageManager answers
NetworkAnalyzeApp(pmv) ==
    IF pmv.packageInfo = Null THEN NetworkFailure
    ELSE LET permissions == pmv.packageInfo.requestedPermissions
             hasInternet == "android.permission.INTERNET" \in Elems(permissions)
             networkPerms == FilterIn(permissions, NETWORK_PERMISSIONS)
             dataExfilPerms == FilterIn(permissions, DATA_EXFIL_PERMISSIONS)
             exfilRiskScore == IF hasInternet /\ dataExfilPerms # <<>>
                               THEN Min(100, Len(dataExfilPerms) * 20)
                               ELSE 0
             riskLevel == IF exfilRiskScore >= 60 THEN "HIGH"
                          ELSE IF exfilRiskScore >= 30 THEN "MEDIUM"
                          ELSE "LOW"
             usesCleartext == IF pmv.appInfo = Null THEN FALSE
                              ELSE pmv.appInfo.targetSdkVersion < 28
         IN  [ hasInternet |-> hasInternet,
               networkPermissions |-> networkPerms,
               networkPermissionCount |-> Len(networkPerms),
               dataExfilPermissions |-> dataExfilPerms,
               dataExfilPermissionCount |-> Len(dataExfilPerms),
               exfilRiskScore |-> exfilRiskScore,
               riskLevel |-> riskLevel,
               usesCleartext |-> usesCleartext,
               canAccessWifi |->
                   "android.permission.ACCESS_WIFI_STATE" \in Elems(permissions),
               canChangeNetwork |->
                   "android.permission.CHANGE_NETWORK_STATE" \in Elems(permissions),
               networkCapabilities |-> buildNetworkCapabilityList(permissions) ]

\* the manifests the network analyzer is run on: the first k data permissions
\* with and without INTERNET, a manifest that repeats a permission and one
\* with every network capability
NetPermArrays ==
    { SubSeq(DATA_EXFIL_PERMISSIONS, 1, k) : k \in 0..Len(DATA_EXFIL_PERMISSIONS) }
    \cup { <<"android.permission.INTERNET">> \o SubSeq(DATA_EXFIL_PERMISSIONS, 1, k) :
             k \in 0..Len(DATA_EXFIL_PERMISSIONS) }
    \cup { <<"android.permission.READ_SMS", "android.permission.CAMERA",
             "android.permission.INTERNET", "android.permission.READ_SMS">>,
           NETWORK_PERMISSIONS
             \o <<"android.permission.BLUETOOTH", "android.permission.BLUETOOTH_ADMIN",
                  "android.permission.NFC", "android.permission.CAMERA">> }

NetAnswers(pkg) ==
    [ appInfo : {Null} \cup [ flags : {{}},
                              label : {LabelOf(pkg)},
                              sourceDir : {"/data/app/base.apk"},
                              targetSdkVersion : {27, 28} ],
      packageInfo : {Null} \cup [ requestedPermissions : NetPermArrays,
                                  lastUpdateTime : {LastUpdate},
                                  services : {5} ],
      installerPackage : {<<PLAY_STORE>>},
      fileLength : {ApkLength} ]

InitNet ==
    /\ packageName \in Packages
    /\ pm \in NetAnswers(packageName)
    /\ clock = StartTime
    /\ result = Null
    /\ netResult = Null
    /\ OtherIdle
    /\ BatchIdle

\* the network analyzer is called on the package
AnalyzeNetwork ==
    /\ netResult' = NetworkAnalyzeApp(pm)
    /\ UNCHANGED <<packageName, pm, clock, result, batchVars, otherVars>>

NextNet == AnalyzeNetwork

SpecNet == InitNet /\ [][NextNet]_vars

(***************************************************************************)
(* The helpers of the engine called on their own, on inputs drawn from     *)
(* the sets below; call records the arguments and the value returned.      *)
(* Each behaviour makes one call: the helpers keep no state between calls. *)
(***************************************************************************)
\* package ids and display names, some in mixed case, some with keywords
\* of several keyword lists
ClassifierPackages ==
    { "com.example.notes", "org.fast.chat", "com.android.camera2", "com.WhatsApp",
      "com.vendor.QRScanner", "com.example.maps", "io.gamehub.play",
      "com.tools.flashlight", "com.acme.calculator", "com.facebook.katana",
      "us.zoom.videomeetings", "com.ubercab" }

ClassifierNames ==
    { "Notes", "WhatsApp Camera", "Fast Chat", "Weather Game", "Phone", "TikTok",
      "Calculator", "SMS Backup" }

\* the values inferAppCategory returns
AppCategories ==
    {"camera", "messaging", "social", "communication", "location", "game", "utility",
     "unknown"}

\* permission identifiers: the two tier lists, the runtime signals and some
\* identifiers of neither list
PermissionIds ==
    HIGH_RISK_PERMISSIONS \cup MEDIUM_RISK_PERMISSIONS \cup
    { "android.permission.BIND_ACCESSIBILITY_SERVICE",
      "android.permission.SYSTEM_ALERT_WINDOW",
      "android.permission.RECEIVE_BOOT_COMPLETED",
      "android.permission.VIBRATE",
      "android.permission.READ_CALENDAR",
      "android.permission.BODY_SENSORS",
      "android.permission.RECEIVE_MMS",
      "android.permission.RECEIVE_SMS",
      "android.permission.CALL_PHONE",
      "android.permission.BLUETOOTH_ADMIN",
      "android.permission.ACCESS_BACKGROUND_LOCATION",
      "android.permission.ACCESS_WIFI_STATE",
      "com.vendor.permission.PUSH" }

\* manifests: one permission alone, and the manifests of the engine model
DetailArrays == { <<p>> : p \in PermissionIds } \cup PermArrays

\* getPackageInfo throws (Null) or answers with the requested permissions
DetailAnswers == {Null} \cup [requestedPermissions : DetailArrays]

InitPure ==
    /\ packageName = "com.example.notes"
    /\ pm = NotInstalled
    /\ clock = StartTime
    /\ result = Null
    /\ netResult = Null
    /\ BatchIdle
    /\ call = Null
    /\ api = Null
    /\ home = Null

CallInferAppCategory ==
    \E pkg \in ClassifierPackages, appName \in ClassifierNames :
        /\ call = Null
        /\ call' = [ op |-> "inferAppCategory", packageName |-> pkg,
                     appName |-> appName, value |-> inferAppCategory(pkg, appName) ]
        /\ UNCHANGED <<engineVars, clock, netResult, batchVars, api, home>>

CallIsPermissionContextuallyAppropriate ==
    \E permission \in PermissionIds, category \in AppCategories :
        /\ call = Null
        /\ call' = [ op |-> "isPermissionContextuallyAppropriate",
                     permission |-> permission, category |-> category,
                     value |-> isPermissionContextuallyAppropriate(permission, category) ]
        /\ UNCHANGED <<engineVars, clock, netResult, batchVars, api, home>>

\* the value is the list of factors appended; the function returns whether
\* it appended any
CallDetectSuspiciousCombos ==
    \E permissions \in PermArrays, category \in AppCategories :
        LET factors == detectSuspiciousCombos(permissions, category)
        IN  /\ call = Null
            /\ call' = [ op |-> "detectSuspiciousCombos", permissions |-> permissions,
                         category |-> category, value |-> factors,
                         hasSuspiciousCombo |-> factors # <<>> ]
            /\ UNCHANGED <<engineVars, clock, netResult, batchVars, api, home>>

\* one pass of the permission loop of analyzeAppRisk (lines 319-331)
CallPermissionPoints ==
    \E permission \in PermissionIds, category \in AppCategories :
        /\ call = Null
        /\ call' = [ op |-> "permissionPoints", permission |-> permission,
                     category |-> category,
                     value |-> PermissionPoints(permission, category) ]
        /\ UNCHANGED <<engineVars, clock, netResult, batchVars, api, home>>

CallGetDetailedPermissions ==
    \E packageInfo \in DetailAnswers :
        /\ call = Null
        /\ call' = [ op |-> "getDetailedPermissions", packageInfo |-> packageInfo,
                     value |-> getDetailedPermissions(packageInfo) ]
        /\ UNCHANGED <<engineVars, clock, netResult, batchVars, api, home>>

NextPure ==
    \/ CallInferAppCategory
    \/ CallIsPermissionContextuallyAppropriate
    \/ CallDetectSuspiciousCombos
    \/ CallPermissionPoints
    \/ CallGetDetailedPermissions

SpecPure == InitPure /\ [][NextPure]_vars

(***************************************************************************)
(* The single-call functions of the API service: getInstalledApps,         *)
(* analyzeApp, scanFile, getDetailedPermissions and getMalwareAnalysis.    *)
(* Each calls the bridge when the native module is there, awaits it, and   *)
(* returns or throws; api holds the call under way: the function, its      *)
(* argument, where it stands, how the bridge call settled and the outcome  *)
(* of the promise the function returned.                                   *)
(***************************************************************************)
ApiFunctions ==
    {"getInstalledApps", "analyzeApp", "scanFile", "getDetailedPermissions",
     "getMalwareAnalysis"}

\* package names passed to the API: launcher apps and one that is not installed
ApiPackages == {"com.example.notes", "org.fast.chat", "com.example.maps", "com.absent.app"}

\* file metadata passed to scanFile; the package name is empty for a file
\* that is not an app
FileMetadatas ==
    [ packageName : {"", "org.fast.chat"},
      fileType : {"apk", "pdf", "exe", "doc", "zip", "txt"} ]

\* a promise rejected with an error
RejectedWith(error) == [state |-> "rejected", error |-> error]

\* promise.reject("ERROR", "Failed to ...") of the bridge method behind fn
BridgeError(fn) ==
    [ code |-> "ERROR",
      message |->
          IF fn = "getInstalledApps" THEN "Failed to get installed apps"
          ELSE IF fn \in {"analyzeApp", "scanFile"} THEN "Failed to analyze app"
          ELSE IF fn = "getDetailedPermissions" THEN "Failed to get detailed permissions"
          ELSE "Failed to get malware analysis" ]

\* the answers of the bridge method getMalwareAnalysis: the fields it copies
\* from MalwareDetector.analyzeApp, for an app found safe and one found not
MalwareAnswers(pkg) ==
    { [ packageName |-> pkg, appName |-> "App", threatLevel |-> "LOW", threatScore |-> 0,
        suspiciousNameMatch |-> FALSE, matchedComboCount |-> 0, suspiciousPermCount |-> 0,
        indicatorCount |-> 0, isSafe |-> TRUE, indicators |-> <<>>,
        suspiciousPermissions |-> <<>> ],
      [ packageName |-> pkg, appName |-> "App", threatLevel |-> "HIGH", threatScore |-> 80,
        suspiciousNameMatch |-> TRUE, matchedComboCount |-> 1, suspiciousPermCount |-> 2,
        indicatorCount |-> 1, isSafe |-> FALSE, indicators |-> <<"Suspicious app name">>,
        suspiciousPermissions |-> <<"android.permission.READ_SMS",
                                    "android.permission.SEND_SMS">> ] }

getMockPermissions ==
    << [ permission |-> "android.permission.CAMERA", shortName |-> "Camera",
         riskLevel |-> "HIGH", category |-> "Privacy",
         description |-> "Access device camera", icon |-> "camera" ],
       [ permission |-> "android.permission.LOCATION", shortName |-> "Location",
         riskLevel |-> "HIGH", category |-> "Privacy",
         description |-> "Access device location", icon |-> "map-marker" ],
       [ permission |-> "android.permission.INTERNET", shortName |-> "Internet",
         riskLevel |-> "LOW", category |-> "Network",
         description |-> "Access internet", icon |-> "web" ] >>

getMockMalwareAnalysis ==
    [ packageName |-> "com.example.app", appName |-> "Sample App", threatLevel |-> "LOW",
      threatScore |-> 15, suspiciousNameMatch |-> FALSE, matchedComboCount |-> 0,
      suspiciousPermCount |-> 1, indicatorCount |-> 0, isSafe |-> TRUE,
      indicators |-> <<>>, suspiciousPermissions |-> <<>> ]

getMockScanResult(fileType) ==
    IF fileType = "apk" THEN [risk |-> "HIGH", confidence |-> 94, action |-> "BLOCKED"]
    ELSE IF fileType = "pdf" THEN [risk |-> "LOW", confidence |-> 87, action |-> "ALLOWED"]
    ELSE IF fileType = "exe" THEN [risk |-> "HIGH", confidence |-> 91, action |-> "BLOCKED"]
    ELSE IF fileType = "doc"
        THEN [risk |-> "MEDIUM", confidence |-> 72, action |-> "RESTRICTED"]
    ELSE IF fileType = "zip"
        THEN [risk |-> "MEDIUM", confidence |-> 68, action |-> "RESTRICTED"]
    ELSE [risk |-> "LOW", confidence |-> 85, action |-> "ALLOWED"]

\* what analyzeApp returns without the native module
AnalyzeAppFallback == [risk |-> "MEDIUM", confidence |-> 75, action |-> "RESTRICTED"]

\* the package name a call hands to the bridge
BridgePackage(fn, arg) == IF fn = "scanFile" THEN arg.packageName ELSE arg

\* the values the bridge call behind fn can resolve with on a device with n
\* launcher apps
BridgeValues(fn, arg, n, now) ==
    IF fn = "getInstalledApps" THEN {listInstalledApps(n)}
    ELSE IF fn \in {"analyzeApp", "scanFile"}
        THEN {BridgeAnalyzeApp(BridgePackage(fn, arg), n, now)}
    ELSE IF fn = "getDetailedPermissions"
        THEN {getDetailedPermissions(DevicePm(arg, n).packageInfo)}
    ELSE MalwareAnswers(arg)

\* the outcome of fn when its bridge call resolved with value
OnBridgeResolved(fn, value) ==
    IF fn = "scanFile"
    THEN Fulfilled([ risk |-> value.risk, confidence |-> value.confidence,
                     action |-> value.action ])
    ELSE Fulfilled(value)

\* catch blocks that all throw the error on
OnBridgeRejected_AllRethrow(fn, error, now) ==
    RejectedWith(error)

\* the outcome of fn when its bridge call rejected: the catch block returns
\* the mock data or throws the error on
OnBridgeRejected(fn, error, now) ==
    IF fn = "getInstalledApps" THEN Fulfilled(getMockApps(now))
    ELSE IF fn = "getDetailedPermissions" THEN Fulfilled(getMockPermissions)
    ELSE IF fn = "getMalwareAnalysis" THEN Fulfilled(getMockMalwareAnalysis)
    ELSE RejectedWith(error)

\* the value fn returns when it does not call the bridge; scanFile returns
\* it after the simulated delay
WithoutBridge(fn, arg, now) ==
    IF fn = "getInstalledApps" THEN getMockApps(now)
    ELSE IF fn = "analyzeApp" THEN AnalyzeAppFallback
    ELSE IF fn = "scanFile" THEN getMockScanResult(arg.fileType)
    ELSE IF fn = "getDetailedPermissions" THEN getMockPermissions
    ELSE getMockMalwareAnalysis

\* the call record when fn is entered with arg: it awaits the bridge when
\* the native module is there (and, for scanFile, the file names a package),
\* awaits the delay in scanFile otherwise, and returns the fallback at once
\* in the other functions
Entered(fn, arg, now) ==
    LET useBridge == android /\ (fn = "scanFile" => arg.packageName # "")
    IN  [ fn |-> fn, arg |-> arg, bridge |-> "none", error |-> Null,
          pc |-> IF useBridge THEN "awaitBridge"
                 ELSE IF fn = "scanFile" THEN "delay" ELSE "returned",
          outcome |-> IF useBridge \/ fn = "scanFile" THEN Pending
                      ELSE Fulfilled(WithoutBridge(fn, arg, now)) ]

InitApi ==
    /\ packageName = "com.example.notes"
    /\ pm = NotInstalled
    /\ clock = StartTime
    /\ result = Null
    /\ netResult = Null
    /\ android \in BOOLEAN
    /\ installed \in 0..MaxApps
    /\ batchFn = "none"
    /\ batchPc = "idle"
    /\ apps = <<>>
    /\ calls = <<>>
    /\ slots = <<>>
    /\ overtaken = FALSE
    /\ batchResult = Null
    /\ call = Null
    /\ api = Null
    /\ home = Null

ApiGetInstalledApps ==
    /\ api = Null
    /\ api' = Entered("getInstalledApps", "", clock)
    /\ UNCHANGED <<engineVars, clock, netResult, batchVars, call, home>>

ApiAnalyzeApp ==
    /\ api = Null
    /\ \E pkg \in ApiPackages : api' = Entered("analyzeApp", pkg, clock)
    /\ UNCHANGED <<engineVars, clock, netResult, batchVars, call, home>>

ApiScanFile ==
    /\ api = Null
    /\ \E fileMetadata \in FileMetadatas : api' = Entered("scanFile", fileMetadata, clock)
    /\ UNCHANGED <<engineVars, clock, netResult, batchVars, call, home>>

ApiGetDetailedPermissions ==
    /\ api = Null
    /\ \E pkg \in ApiPackages : api' = Entered("getDetailedPermissions", pkg, clock)
    /\ UNCHANGED <<engineVars, clock, netResult, batchVars, call, home>>

ApiGetMalwareAnalysis ==
    /\ api = Null
    /\ \E pkg \in ApiPackages : api' = Entered("getMalwareAnalysis", pkg, clock)
    /\ UNCHANGED <<engineVars, clock, netResult, batchVars, call, home>>

\* the bridge call resolves and the function returns
BridgeResolves ==
    /\ api # Null
    /\ api.pc = "awaitBridge"
    /\ \E value \in BridgeValues(api.fn, api.arg, installed, clock) :
           api' = [api EXCEPT !.bridge = "resolved", !.pc = "returned",
                              !.outcome = OnBridgeResolved(api.fn, value)]
    /\ UNCHANGED <<engineVars, clock, netResult, batchVars, call, home>>

\* the bridge call rejects and the catch block of the function runs
BridgeRejects ==
    /\ api # Null
    /\ api.pc = "awaitBridge"
    /\ LET error == BridgeError(api.fn)
       IN  api' = [api EXCEPT !.bridge = "rejected", !.error = error, !.pc = "returned",
                              !.outcome = OnBridgeRejected(api.fn, error, clock)]
    /\ UNCHANGED <<engineVars, clock, netResult, batchVars, call, home>>

\* the simulated delay of scanFile is over and the mock result is returned
DelayElapses ==
    /\ api # Null
    /\ api.pc = "delay"
    /\ api' = [api EXCEPT !.pc = "returned",
                          !.outcome = Fulfilled(WithoutBridge(api.fn, api.arg, clock))]
    /\ UNCHANGED <<engineVars, clock, netResult, batchVars, call, home>>

NextApi ==
    \/ ApiGetInstalledApps
    \/ ApiAnalyzeApp
    \/ ApiScanFile
    \/ ApiGetDetailedPermissions
    \/ ApiGetMalwareAnalysis
    \/ BridgeResolves
    \/ BridgeRejects
    \/ DelayElapses

SpecApi == InitApi /\ [][NextApi]_vars

(***************************************************************************)
(* The Home screen: its state hooks and the asynchronous handlers          *)
(* fetchRecentFiles (run once by the mount effect), handleScan (the scan   *)
(* button, disabled while scanning) and handleAppSelect (an app picked in  *)
(* the selection modal).  home.requests lists the invocations whose        *)
(* awaited API call has not settled, oldest first.  Lists of apps are kept *)
(* as lists of package names.                                              *)
(***************************************************************************)
\* the flag each handler sets on entry and clears in its finally block
FlagOf(handler) ==
    IF handler = "fetchRecentFiles" THEN "loading"
    ELSE IF handler = "handleScan" THEN "appsLoading"
    ELSE "scanning"

\* the package names of a list of apps
PackageNames(list) == [i \in 1..Len(list) |-> list[i].packageName]

\* the lists getInstalledApps and getRecentFiles can resolve with: the apps
\* of the device, or the mock app when the bridge is not there or rejected
AppLists ==
    IF android
    THEN {PackageNames(listInstalledApps(installed)), PackageNames(getMockApps(clock))}
    ELSE {PackageNames(getMockApps(clock))}

\* how the call awaited by a handler can settle: only the Promise.all of
\* handleAppSelect can reject, when the bridge rejects analyzeApp
Settlements(handler) ==
    IF handler = "handleAppSelect" /\ android THEN {"resolved", "rejected"}
    ELSE {"resolved"}

\* the pending invocations of a handler
PendingOf(state, handler) ==
    { i \in 1..Len(state.requests) : state.requests[i].handler = handler }

RemoveAt(seq, i) == SubSeq(seq, 1, i - 1) \o SubSeq(seq, i + 1, Len(seq))

\* the hooks as useState initialises them, before the mount effect
HomeConstructed ==
    [ mounted |-> FALSE, recentFiles |-> <<>>, allApps |-> <<>>, loading |-> FALSE,
      appsLoading |-> FALSE, scanning |-> FALSE, modalVisible |-> FALSE,
      navigated |-> "", requests |-> <<>> ]

\* the state after a handler set its flag and reached its await
Invoked(state, handler, app) ==
    [state EXCEPT ![FlagOf(handler)] = TRUE,
                  !.requests = Append(@, [handler |-> handler, app |-> app])]

\* the body of the try block after the await
AfterAwait(state, request, value) ==
    IF request.handler = "fetchRecentFiles" THEN [state EXCEPT !.recentFiles = value]
    ELSE IF request.handler = "handleScan" THEN [state EXCEPT !.allApps = value]
    ELSE [state EXCEPT !.navigated = request.app]

\* handlers that clear their flag at the end of the try block
Settled_NoFinally(state, i, settlement, value) ==
    LET request == state.requests[i]
    IN  IF settlement = "resolved"
        THEN [AfterAwait(state, request, value) EXCEPT
                  ![FlagOf(request.handler)] = FALSE,
                  !.requests = RemoveAt(@, i)]
        ELSE [state EXCEPT !.requests = RemoveAt(@, i)]

\* the state after the awaited call of the i-th pending invocation settled:
\* the rest of the try block when it resolved, then the finally block
Settled(state, i, settlement, value) ==
    LET request == state.requests[i]
        afterTry == IF settlement = "resolved" THEN AfterAwait(state, request, value)
                    ELSE state
    IN  [afterTry EXCEPT ![FlagOf(request.handler)] = FALSE,
                         !.requests = RemoveAt(@, i)]

InitHome ==
    /\ packageName = "com.example.notes"
    /\ pm = NotInstalled
    /\ clock = StartTime
    /\ result = Null
    /\ netResult = Null
    /\ android \in BOOLEAN
    /\ installed \in 0..MaxApps
    /\ batchFn = "none"
    /\ batchPc = "idle"
    /\ apps = <<>>
    /\ calls = <<>>
    /\ slots = <<>>
    /\ overtaken = FALSE
    /\ batchResult = Null
    /\ call = Null
    /\ api = Null
    /\ home = HomeConstructed

\* useEffect(() => { fetchRecentFiles(); }, [])
Mount ==
    /\ ~home.mounted
    /\ home' = [Invoked(home, "fetchRecentFiles", "") EXCEPT !.mounted = TRUE]
    /\ UNCHANGED <<engineVars, clock, netResult, batchVars, call, api>>

\* the scan button is pressed
HandleScan ==
    /\ home.mounted
    /\ ~home.scanning
    /\ Cardinality(PendingOf(home, "handleScan")) < MaxPresses
    /\ home' = [Invoked(home, "handleScan", "") EXCEPT !.modalVisible = TRUE]
    /\ UNCHANGED <<engineVars, clock, netResult, batchVars, call, api>>

\* onClose of the selection modal
CloseModal ==
    /\ home.modalVisible
    /\ home' = [home EXCEPT !.modalVisible = FALSE]
    /\ UNCHANGED <<engineVars, clock, netResult, batchVars, call, api>>

\* an app of the list is picked in the selection modal
HandleAppSelect ==
    /\ home.modalVisible
    /\ \E i \in 1..Len(home.allApps) :
           home' = [Invoked(home, "handleAppSelect", home.allApps[i])
                        EXCEPT !.modalVisible = FALSE]
    /\ UNCHANGED <<engineVars, clock, netResult, batchVars, call, api>>

\* the call awaited by a pending invocation settles and the handler runs on
\* to its end
AwaitSettles ==
    /\ \E i \in 1..Len(home.requests) :
       \E settlement \in Settlements(home.requests[i].handler) :
       \E value \in AppLists :
           home' = Settled(home, i, settlement, value)
    /\ UNCHANGED <<engineVars, clock, netResult, batchVars, call, api>>

NextHome ==
    \/ Mount
    \/ HandleScan
    \/ CloseModal
    \/ HandleAppSelect
    \/ AwaitSettles

SpecHome == InitHome /\ [][NextHome]_vars

(***************************************************************************)
(* Properties of analyzeAppRisk.                                           *)
(***************************************************************************)
\* the requested permissions of the package under analysis
RequestedPermissions ==
    IF pm.packageInfo = Null THEN {} ELSE Elems(pm.packageInfo.requestedPermissions)

\* the package is a system app, sits in the privileged partition or carries
\* a trusted publisher prefix
TrustedApp ==
    \/ pm.appInfo # Null /\ FLAG_SYSTEM \in pm.appInfo.flags
    \/ pm.appInfo # Null /\ Contains(pm.appInfo.sourceDir, "/system/priv-app")
    \/ \E pre \in TRUSTED_PREFIXES : StartsWith(packageName, pre)

\* C1: the riskScore of every result is an integer between 0 and 100.
RiskScoreInRange ==
    result # Null => result.riskScore \in 0..100

\* a call whose accumulated points exceed 100 and are capped
RiskScoreCapped ==
    result # Null /\ result.rawScore > 100 /\ result.riskScore = 100

\* C2: a trusted app gets riskLevel LOW and riskScore 0 whatever else is
\* supplied.
TrustedIsLowZero ==
    (result # Null /\ TrustedApp) => (result.risk = "LOW" /\ result.riskScore = 0)

\* a privileged-partition app that is sideloaded, debuggable and holds SMS
\* and Internet permissions, analysed
TrustedDespiteSignals ==
    /\ result # Null
    /\ pm.appInfo # Null
    /\ Contains(pm.appInfo.sourceDir, "/system/priv-app")
    /\ FLAG_SYSTEM \notin pm.appInfo.flags
    /\ FLAG_DEBUGGABLE \in pm.appInfo.flags
    /\ ~(\E pre \in TRUSTED_PREFIXES : StartsWith(packageName, pre))
    /\ pm.installerPackage = <<>>
    /\ {"android.permission.READ_SMS", PERM_INTERNET} \subseteq RequestedPermissions
    /\ result.risk = "LOW"

SmsPermissions ==
    { "android.permission.READ_SMS", "android.permission.SEND_SMS",
      "android.permission.RECEIVE_SMS" }

\* C3: an untrusted app of category "unknown" holding an SMS permission and
\* the Internet permission gets riskLevel HIGH, also below 45 points.
SmsInternetForcesHigh ==
    ( /\ result # Null
      /\ ~TrustedApp
      /\ result.appCategory = "unknown"
      /\ RequestedPermissions \cap SmsPermissions # {}
      /\ PERM_INTERNET \in RequestedPermissions )
    => result.risk = "HIGH"

\* such an app with fewer than 45 points, analysed
SmsInternetBelow45 ==
    /\ result # Null
    /\ ~TrustedApp
    /\ result.appCategory = "unknown"
    /\ "android.permission.READ_SMS" \in RequestedPermissions
    /\ PERM_INTERNET \in RequestedPermissions
    /\ result.riskScore = 19
    /\ result.risk = "HIGH"

LevelFromScoreAndForce ==
    (result # Null /\ ~TrustedApp) =>
        result.risk = ( IF result.forceHigh \/ result.riskScore >= 45 THEN "HIGH"
                        ELSE IF result.riskScore >= 20 THEN "MEDIUM"
                        ELSE "LOW" )

\* an untrusted app that lands exactly on the MEDIUM threshold without force
MediumAtThreshold ==
    /\ result # Null
    /\ ~TrustedApp
    /\ ~result.forceHigh
    /\ result.riskScore = 20
    /\ result.risk = "MEDIUM"

WithPermission(p) ==
    [pm EXCEPT !.packageInfo.requestedPermissions = Append(@, p)]

\* the riskScore of the same call on the manifest with p added
RiskScoreWith(p) ==
    CapScore(RawScore(Locals(packageName, WithPermission(p), result.currentTime)))

\* C7: adding a HIGH-tier permission that is not yet requested to an
\* untrusted app never lowers the riskScore.
HighPermissionMonotone ==
    (result # Null /\ ~TrustedApp /\ pm.packageInfo # Null) =>
        \A p \in HIGH_RISK_PERMISSIONS \ RequestedPermissions :
            RiskScoreWith(p) >= result.riskScore

\* an untrusted sideloaded app without high-risk permissions whose score
\* rises by a first one: 10 or 15 for the permission and 10 more for the
\* sideload bonus
HighPermissionRaises ==
    /\ result # Null
    /\ ~TrustedApp
    /\ pm.packageInfo # Null
    /\ result.isSideloaded
    /\ result.highRiskPerms = 0
    /\ \E p \in HIGH_RISK_PERMISSIONS \ RequestedPermissions :
          RiskScoreWith(p) \in {result.riskScore + 20, result.riskScore + 25}

\* C9 as stated: when a metadata lookup fails the result is the default
\* assessment LOW, confidence 0.5, action SAFE.
LookupFailureGivesDefault ==
    (result # Null /\ (pm.appInfo = Null \/ pm.packageInfo = Null)) =>
        /\ result.risk = "LOW"
        /\ result.confidence = 50
        /\ result.action = "SAFE"

\* the update time the freshness check reads
LastUpdateTime == IF pm.packageInfo = Null THEN 0 ELSE pm.packageInfo.lastUpdateTime

\* at time t the last update lies more than two years back
StaleAt(t) == LastUpdateTime > 0 /\ t - LastUpdateTime > twoYearsMs

BatchEntries ==
    IF batchFn = "getScanHistory"
    THEN batchResult.today \o batchResult.yesterday \o batchResult.earlier
    ELSE batchResult

\* the entry is the default assessment of the app
IsDefaultOf(entry, app) ==
    /\ entry.risk = "LOW"
    /\ entry.confidence = 50
    /\ entry.action = "ALLOWED"
    /\ DOMAIN entry = DOMAIN app \cup DefaultKeys
    /\ \A k \in DOMAIN app \ DefaultKeys : entry[k] = app[k]

\* the entry carries the analysis the engine makes of the app
IsAnalysisOf(entry, app) ==
    LET analysis == BridgeAnalyzeApp(app.packageName, installed, clock)
    IN /\ entry.fileName = analysis.fileName
       /\ entry.fileSize = analysis.fileSize
       /\ entry.risk = analysis.risk
       /\ entry.confidence = analysis.confidence
       /\ entry.action = analysis.action

\* C10: a finished batch over N apps returns N entries in input order, entry
\* i describing app i, whatever the order in which the per-app bridge calls
\* settled; the positions whose call rejected hold the default assessment
\* and the others hold their analysis.
BatchKeepsIndexCorrespondence ==
    batchPc = "done" =>
        /\ Len(BatchEntries) = Len(apps)
        /\ \A i \in 1..Len(apps) :
              /\ BatchEntries[i].packageName = apps[i].packageName
              /\ calls[i] = "rejected" => IsDefaultOf(BatchEntries[i], apps[i])
              /\ calls[i] = "resolved" => IsAnalysisOf(BatchEntries[i], apps[i])
              /\ calls[i] = "none" => BatchEntries[i] = apps[i]

\* a finished batch in which calls settled out of order, some rejected and
\* some resolved, and the analysed entries are not all LOW
MixedBatchOutOfOrder ==
    /\ batchPc = "done"
    /\ overtaken
    /\ Len(apps) >= 6
    /\ calls[1] = "resolved"
    /\ calls[2] = "rejected"
    /\ calls[3] = "rejected"
    /\ calls[6] = "resolved"
    /\ BatchEntries[1].risk = "HIGH"
    /\ BatchEntries[2].risk = "LOW"

(***************************************************************************)
(* Properties of the scoring steps of analyzeAppRisk.                      *)
(***************************************************************************)
\* the values the last call derived from its inputs
CallLocals == Locals(packageName, pm, result.currentTime)

\* the suspicious combos the last call matched
MatchedCombos == detectSuspiciousCombos(CallLocals.permissions, CallLocals.appCategory)

\* the points of the factors of the result that carry one of the categories
PointsIn(categories) ==
    LET fs == SelectSeq(result.riskBreakdown, LAMBDA f : f.category \in categories)
    IN  SumSeq([i \in 1..Len(fs) |-> fs[i].points])

SignalCategories == {"Installation", "Build", "Platform", "Maintenance", "Runtime"}

\* what the permissions of the last call added to the raw score
PermissionContribution == result.rawScore - PointsIn(SignalCategories)

\* C11: for an untrusted app each matched suspicious combo adds 35 points to
\* the raw score: the raw score is the permission and signal points plus 35
\* per matched combo.
ComboPointsAccumulated ==
    (result # Null /\ ~result.isTrusted) =>
        result.rawScore =
            PermissionScore(CallLocals.permissions, CallLocals.appCategory)
              + PointsIn(SignalCategories) + 35 * Len(MatchedCombos)

\* 10 or 15 per HIGH permission, 4 or 6 per MEDIUM permission, summed over a
\* set of permissions
RECURSIVE TieredPoints(_, _)
TieredPoints(perms, category) ==
    IF perms = {} THEN 0
    ELSE LET p == CHOOSE q \in perms : TRUE
             appropriate == isPermissionContextuallyAppropriate(p, category)
             points == IF p \in HIGH_RISK_PERMISSIONS
                           THEN (IF appropriate THEN 10 ELSE 15)
                       ELSE IF p \in MEDIUM_RISK_PERMISSIONS
                           THEN (IF appropriate THEN 4 ELSE 6)
                       ELSE 0
         IN  points + TieredPoints(perms \ {p}, category)

\* C12: for an untrusted app the permissions add 10 (appropriate) or 15 per
\* HIGH permission, 4 or 6 per MEDIUM permission and 0 for any other, each
\* distinct permission once.
PermissionContributionTiered ==
    (result # Null /\ ~result.isTrusted) =>
        PermissionContribution = TieredPoints(RequestedPermissions, result.appCategory)

\* a manifest that repeats READ_SMS beside CAMERA and INTERNET, in an app of
\* unknown category: 15 + 15 + 4, READ_SMS counted once
RepeatedPermissionCountedOnce ==
    /\ result # Null
    /\ ~result.isTrusted
    /\ pm.packageInfo # Null
    /\ Len(pm.packageInfo.requestedPermissions) > Cardinality(RequestedPermissions)
    /\ result.appCategory = "unknown"
    /\ PermissionContribution = 34

\* the provenance class of the installer the PackageManager reported
Provenance ==
    IF pm.installerPackage \in {<<>>, <<"">>} THEN "SIDELOADED"
    ELSE IF pm.installerPackage = <<PLAY_STORE>> THEN "STORE"
    ELSE "THIRD_PARTY_STORE"

\* the raw score of the same call had the app come from the Play Store
RawScoreFromStore ==
    RawScore(Locals(packageName, [pm EXCEPT !.installerPackage = <<PLAY_STORE>>],
                    result.currentTime))

\* C13: the installer is classified as exactly one of sideloaded, store and
\* third-party store, and for an untrusted app it adds 30 when sideloaded
\* with a HIGH permission, 20 when sideloaded without, 15 from a third-party
\* store and 0 from the store.
ProvenanceClassifiedAndScored ==
    result # Null =>
        /\ Cardinality({i \in 1..3 : <<result.isSideloaded, result.isFromPlayStore,
                                       CallLocals.isThirdPartyStore>>[i]}) = 1
        /\ result.isSideloaded <=> Provenance = "SIDELOADED"
        /\ result.isFromPlayStore <=> Provenance = "STORE"
        /\ CallLocals.isThirdPartyStore <=> Provenance = "THIRD_PARTY_STORE"
        /\ ~result.isTrusted =>
             result.rawScore - RawScoreFromStore =
                 IF Provenance = "SIDELOADED"
                 THEN (IF RequestedPermissions \cap HIGH_RISK_PERMISSIONS # {}
                       THEN 30 ELSE 20)
                 ELSE IF Provenance = "THIRD_PARTY_STORE" THEN 15
                 ELSE 0

\* an untrusted app from a third-party store, scored 15 above the store
ThirdPartyStoreScored ==
    /\ result # Null
    /\ ~result.isTrusted
    /\ Provenance = "THIRD_PARTY_STORE"
    /\ result.rawScore = RawScoreFromStore + 15

\* the raw score of the same call had the build flag not been set
RawScoreWithoutFlag(flag) ==
    RawScore(Locals(packageName, [pm EXCEPT !.appInfo.flags = @ \ {flag}],
                    result.currentTime))

\* the level the score thresholds alone give
ThresholdLevel(score) ==
    IF score >= 45 THEN "HIGH" ELSE IF score >= 20 THEN "MEDIUM" ELSE "LOW"

\* C14: for an untrusted app debuggable adds 30 points and, with sideloaded
\* or a matched combo, the level is HIGH; debuggable without either leaves
\* the level to the thresholds; test-only adds 25 whether or not the app is
\* debuggable.
DebuggableAndTestOnlyScored ==
    (result # Null /\ ~result.isTrusted) =>
        /\ result.isDebuggable =>
             /\ result.rawScore - RawScoreWithoutFlag(FLAG_DEBUGGABLE) = 30
             /\ (result.isSideloaded \/ MatchedCombos # <<>>) => result.risk = "HIGH"
             /\ (~result.isSideloaded /\ MatchedCombos = <<>>) =>
                    result.risk = ThresholdLevel(result.riskScore)
        /\ result.isTestOnly =>
             result.rawScore - RawScoreWithoutFlag(FLAG_TEST_ONLY) = 25

\* a debuggable test-only build from the store without combos: 30 + 25 points
DebuggableTestOnlyFromStore ==
    /\ result # Null
    /\ ~result.isTrusted
    /\ result.isDebuggable
    /\ result.isTestOnly
    /\ ~result.isSideloaded
    /\ MatchedCombos = <<>>
    /\ result.rawScore = 55
    /\ result.risk = "HIGH"

\* C17: the confidence of every result, trusted or not, lies between 0.70
\* and 0.99, for empty and for very large permission sets.
ConfidenceInRange ==
    result # Null => (70 <= result.confidence /\ result.confidence <= 99)

\* sixteen permissions and three signals: 1.01 before the cap
ConfidenceCapped ==
    /\ result # Null
    /\ result.permissionCount = 16
    /\ pm.installerPackage = <<PLAY_STORE>>
    /\ result.targetSdk > 0
    /\ LastUpdateTime > 0
    /\ result.confidence = 99

\* how many of installer present, targetSdk known, lastUpdate known hold
SignalCount ==
    (IF pm.installerPackage \notin {<<>>, <<"">>} THEN 1 ELSE 0)
    + (IF pm.appInfo # Null /\ pm.appInfo.targetSdkVersion > 0 THEN 1 ELSE 0)
    + (IF pm.packageInfo # Null /\ pm.packageInfo.lastUpdateTime > 0 THEN 1 ELSE 0)

\* C18: confidence = min(0.99, 0.70 + 0.01 x the size of the requested
\* permission set + 0.05 x signalCount), whatever the score, the level and the
\* trust status are.
ConfidenceFromCounts ==
    result # Null =>
        result.confidence =
            Min(99, 70 + Cardinality(RequestedPermissions) + 5 * SignalCount)

\* a trusted app with score 0, three distinct permissions and three signals
TrustedConfidenceFromCounts ==
    /\ result # Null
    /\ result.isTrusted
    /\ result.riskScore = 0
    /\ Cardinality(RequestedPermissions) = 3
    /\ SignalCount = 3
    /\ result.confidence = 88

TrustedFactor ==
    [category |-> "Trusted", description |-> "System or verified publisher app",
     points |-> 0]

\* C19: the factor list of a trusted app is the single Trusted factor with 0
\* points, also when the app is sideloaded, debuggable, matches suspicious
\* combos or requests the accessibility permission.
TrustedSingleFactor ==
    (result # Null /\ TrustedApp) =>
        /\ result.riskBreakdown = <<TrustedFactor>>
        /\ result.riskIndicators = <<"Trusted: System or verified publisher app (+0)">>

\* a trusted app that is sideloaded, debuggable and test-only and whose
\* permissions match a suspicious combo
TrustedWithRiskSignals ==
    /\ result # Null
    /\ TrustedApp
    /\ result.isSideloaded
    /\ result.isDebuggable
    /\ result.isTestOnly
    /\ MatchedCombos # <<>>
    /\ Len(result.riskBreakdown) = 1

\* the place of a factor in the evaluation order
FactorRank(f) ==
    IF f.category = "Trusted" THEN 0
    ELSE IF f.category = "Permission" THEN 1
    ELSE IF f.category = "Suspicious Combo" THEN 2
    ELSE IF f.category = "Installation" THEN 3
    ELSE IF f.category = "Build" THEN (IF f.description = "Test-only build" THEN 5 ELSE 4)
    ELSE IF f.category \in {"Platform", "Maintenance"} THEN 6
    ELSE 7

\* C20: the factors of every result are in evaluation order (permissions,
\* combos, installation, debuggable, test-only, platform and maintenance,
\* runtime), not sorted by points, and riskIndicators renders riskBreakdown
\* entry by entry.
FactorsInEvaluationOrder ==
    result # Null =>
        LET b == result.riskBreakdown
        IN  /\ \A i, j \in 1..Len(b) : i < j => FactorRank(b[i]) <= FactorRank(b[j])
            /\ Len(result.riskIndicators) = Len(b)
            /\ \A i \in 1..Len(b) :
                  result.riskIndicators[i] =
                      b[i].category \o ": " \o b[i].description
                          \o " (+" \o ToString(b[i].points) \o ")"

\* a result with permission, combo, installation, build, platform and
\* runtime factors whose points go up and down along the list
FactorsNotSortedByPoints ==
    /\ result # Null
    /\ LET b == result.riskBreakdown
       IN  /\ {FactorRank(b[i]) : i \in 1..Len(b)} = {1, 2, 3, 4, 5, 6, 7}
           /\ \E i \in 1..(Len(b) - 1) : b[i].points < b[i + 1].points
           /\ \E i \in 1..(Len(b) - 1) : b[i].points > b[i + 1].points

\* C21: an untrusted sideloaded app without permissions and without build,
\* platform or runtime signal gets riskScore 20, riskLevel MEDIUM and action
\* MONITOR.
SideloadedAloneIsMedium ==
    ( /\ result # Null
      /\ ~TrustedApp
      /\ Provenance = "SIDELOADED"
      /\ RequestedPermissions = {}
      /\ pm.appInfo # Null =>
           /\ pm.appInfo.flags \cap {FLAG_DEBUGGABLE, FLAG_TEST_ONLY} = {}
           /\ pm.appInfo.targetSdkVersion >= 29
      /\ ~StaleAt(result.currentTime)
      /\ pm.packageInfo # Null => pm.packageInfo.services <= 5 )
    => /\ result.riskScore = 20
       /\ result.risk = "MEDIUM"
       /\ result.action = "MONITOR"

\* an installed sideloaded app with an empty manifest and no other signal,
\* whose only factor is the installation factor
SideloadedAloneScored ==
    /\ result # Null
    /\ ~TrustedApp
    /\ pm.appInfo # Null
    /\ pm.packageInfo # Null
    /\ Provenance = "SIDELOADED"
    /\ pm.packageInfo.requestedPermissions = <<>>
    /\ Len(result.riskBreakdown) = 1
    /\ result.riskScore = 20
    /\ result.risk = "MEDIUM"

\* the per-permission factors of the result
PermissionFactorsOfResult ==
    SelectSeq(result.riskBreakdown, LAMBDA f : f.category = "Permission")

\* the permissions the last call scored as contextually inappropriate
InappropriateRequested ==
    {p \in RequestedPermissions :
        ~isPermissionContextuallyAppropriate(p, result.appCategory)}

\* C25: a per-permission factor stands only for a permission scored as
\* contextually inappropriate and carries the points added for it; the
\* appropriate permissions add their points without a factor.
PermissionFactorOnlyIfInappropriate ==
    (result # Null /\ ~TrustedApp) =>
        LET pf == PermissionFactorsOfResult
        IN  /\ \A i \in 1..Len(pf) :
                  \E p \in InappropriateRequested :
                      /\ pf[i].description =
                             substringAfterLastDot(p) \o " (unusual for "
                                 \o result.appCategory \o " app)"
                      /\ pf[i].points = TieredPoints({p}, result.appCategory)
            /\ Len(pf) <= Cardinality(InappropriateRequested)
            /\ PermissionContribution - SumSeq([i \in 1..Len(pf) |-> pf[i].points])
                   >= TieredPoints(RequestedPermissions \ InappropriateRequested,
                                   result.appCategory)

\* a messaging app with contacts, call log, SMS and Internet: only the call
\* log is unusual and gets a factor, the other three add 10 + 10 + 4 silently
AppropriateScoredSilently ==
    /\ result # Null
    /\ ~TrustedApp
    /\ result.appCategory = "messaging"
    /\ Cardinality(RequestedPermissions) = 4
    /\ Len(PermissionFactorsOfResult) = 1
    /\ PermissionFactorsOfResult[1].points = 15
    /\ PermissionContribution = 39

\* LOW < MEDIUM < HIGH
LevelRank(level) ==
    IF level = "LOW" THEN 0 ELSE IF level = "MEDIUM" THEN 1 ELSE 2

\* the permissions the model adds to a manifest: the catalogue, the runtime
\* permissions and one that is not catalogued
AddablePermissions ==
    HIGH_RISK_PERMISSIONS \cup MEDIUM_RISK_PERMISSIONS
      \cup {PERM_ACCESSIBILITY, PERM_OVERLAY, PERM_BOOT, "android.permission.VIBRATE"}

\* the values the same call derives from the manifest with p added
LocalsWith(p) == Locals(packageName, WithPermission(p), result.currentTime)

\* riskLevel, forceHigh and riskScore of the same call on the manifest with
\* p added
OutcomeWith(p) ==
    LET L == LocalsWith(p)
        forceHigh == ForceHigh(L)
        riskScore == CapScore(RawScore(L))
    IN  [ risk |-> RiskLevelOf(L.isTrusted, forceHigh, riskScore),
          forceHigh |-> forceHigh,
          riskScore |-> riskScore ]

\* C28: adding a permission of any tier to the manifest of an untrusted app
\* never lowers the riskLevel: forceHigh stays set and the capped score does
\* not decrease.
PermissionNeverLowersLevel ==
    (result # Null /\ ~TrustedApp /\ pm.packageInfo # Null) =>
        \A p \in AddablePermissions :
            LET with == OutcomeWith(p)
            IN  /\ LevelRank(result.risk) <= LevelRank(with.risk)
                /\ result.forceHigh => with.forceHigh
                /\ result.riskScore <= with.riskScore

\* a LOW result that INTERNET lifts to HIGH by forceHigh with fewer than 45
\* points
PermissionLiftsLevel ==
    /\ result # Null
    /\ ~TrustedApp
    /\ pm.packageInfo # Null
    /\ result.risk = "LOW"
    /\ OutcomeWith(PERM_INTERNET).risk = "HIGH"
    /\ OutcomeWith(PERM_INTERNET).riskScore < 45

(***************************************************************************)
(* Properties of the helpers called on their own.                          *)
(***************************************************************************)
\* the last call was a call of op
IsCall(op) == call # Null /\ call.op = op

\* the keyword sets in the order of the claim, each with its category
KeywordSets ==
    << [category |-> "camera", keywords |-> CAMERA_APPS],
       [category |-> "messaging", keywords |-> MESSAGING_APPS],
       [category |-> "social", keywords |-> SOCIAL_APPS],
       [category |-> "communication", keywords |-> CALL_APPS],
       [category |-> "location", keywords |-> LOCATION_APPS],
       [category |-> "game", keywords |-> {"game"}],
       [category |-> "utility", keywords |-> {"flashlight", "calculator"}] >>

\* the keyword sets a package id or display name matches once lower-cased
MatchingSets(pkg, appName) ==
    { i \in DOMAIN KeywordSets :
        \E k \in KeywordSets[i].keywords :
            Contains(Lowercase(pkg), k) \/ Contains(Lowercase(appName), k) }

\* the smallest member of a non-empty set of numbers
Least(S) == CHOOSE i \in S : \A j \in S : i <= j

\* C22: the classifier returns the category of the first keyword set, in
\* the order camera, messaging, social, communication, location, game,
\* utility, that matches the lower-cased package id or display name, and
\* "unknown" when none matches; the value is one of the eight categories.
FirstMatchingKeywordSetWins ==
    IsCall("inferAppCategory") =>
        LET M == MatchingSets(call.packageName, call.appName)
        IN  /\ call.value \in AppCategories
            /\ call.value = IF M = {} THEN "unknown" ELSE KeywordSets[Least(M)].category

\* a mixed-case name with a camera keyword and a messaging keyword was
\* classified as a camera app
CameraAndMessagingClassified ==
    /\ IsCall("inferAppCategory")
    /\ call.appName = "WhatsApp Camera"
    /\ {1, 2} \subseteq MatchingSets(call.packageName, call.appName)
    /\ call.value = "camera"

\* the families of the appropriateness table with their expected categories
ExpectedCategories ==
    << [family |-> "CAMERA",
        expected |-> {"camera", "social", "communication", "messaging"}],
       [family |-> "RECORD_AUDIO", expected |-> {"camera", "communication", "social"}],
       [family |-> "LOCATION", expected |-> {"location", "social", "communication"}],
       [family |-> "CONTACTS", expected |-> {"messaging", "social", "communication"}],
       [family |-> "SMS", expected |-> {"messaging"}],
       [family |-> "CALL_LOG", expected |-> {"communication"}] >>

\* the families a permission identifier belongs to
FamiliesOf(permission) ==
    { i \in DOMAIN ExpectedCategories :
        Contains(permission, ExpectedCategories[i].family) }

\* C23: a permission is appropriate for a category exactly when it belongs
\* to no family of the table or the category is expected for its family;
\* for the category "unknown" every family permission is inappropriate.
AppropriateIffExpectedForFamily ==
    IsCall("isPermissionContextuallyAppropriate") =>
        LET F == FamiliesOf(call.permission)
        IN  /\ call.value =
                  (F = {} \/ \E i \in F : call.category \in ExpectedCategories[i].expected)
            /\ (call.category = "unknown" /\ F # {}) => ~call.value

\* the camera permission was found appropriate for a messaging app
CameraAppropriateForMessaging ==
    /\ IsCall("isPermissionContextuallyAppropriate")
    /\ call.permission = "android.permission.CAMERA"
    /\ call.category = "messaging"
    /\ call.value

\* some requested permission contains the keyword
Requests(permissions, k) ==
    \E i \in 1..Len(permissions) : Contains(permissions[i], k)

\* the four patterns of the combo detector: the keywords that must all be
\* requested and the categories for which the pattern is not suspicious
ComboPatterns ==
    << [needs |-> {"SMS", "INTERNET"}, except |-> {"messaging"}],
       [needs |-> {"CONTACTS", "SMS", "INTERNET"}, except |-> {"messaging", "social"}],
       [needs |-> {"CALL_LOG", "SMS", "INTERNET"}, except |-> {"communication"}],
       [needs |-> {"CAMERA", "RECORD_AUDIO", "LOCATION", "CONTACTS"},
        except |-> {"social", "communication"}] >>

\* the patterns a manifest matches for a category
MatchingPatterns(permissions, category) ==
    { i \in DOMAIN ComboPatterns :
        /\ \A k \in ComboPatterns[i].needs : Requests(permissions, k)
        /\ category \notin ComboPatterns[i].except }

\* the descriptions of the factors of the four patterns
ComboDescriptions ==
    << "SMS + Internet access (not a messaging app)",
       "Contacts + SMS + Internet (data exfiltration pattern)",
       "Call Log + SMS + Internet (spyware pattern)",
       "Camera + Microphone + Location + Contacts (surveillance pattern)" >>

\* C24: the combo detector appends one 35-point factor for each of the four
\* patterns that matches and none for a pattern that does not, each pattern
\* judged on its own; it reports a combo iff it appended a factor, and it
\* appends between 0 and 4 factors.
OneFactorPerMatchingPattern ==
    IsCall("detectSuspiciousCombos") =>
        LET M == MatchingPatterns(call.permissions, call.category)
            described == { call.value[j].description : j \in 1..Len(call.value) }
        IN  /\ Len(call.value) = Cardinality(M)
            /\ Len(call.value) \in 0..4
            /\ described = { ComboDescriptions[i] : i \in M }
            /\ \A j \in 1..Len(call.value) :
                   /\ call.value[j].points = 35
                   /\ call.value[j].category = "Suspicious Combo"
            /\ call.hasSuspiciousCombo = (Len(call.value) >= 1)

\* a manifest matched all four patterns and four factors were appended
AllFourPatternsMatched ==
    /\ IsCall("detectSuspiciousCombos")
    /\ MatchingPatterns(call.permissions, call.category) = {1, 2, 3, 4}
    /\ Len(call.value) = 4
    /\ call.hasSuspiciousCombo

\* the identifiers getPermissionDescription describes
CataloguedPermissions == DOMAIN PermissionDescriptions

\* the keywords getPermissionCategory looks for
CategoryKeywords ==
    { "LOCATION", "CAMERA", "RECORD_AUDIO", "MICROPHONE", "CONTACTS", "SMS", "MMS",
      "CALL", "PHONE", "STORAGE", "EXTERNAL", "INTERNET", "NETWORK", "BLUETOOTH",
      "CALENDAR", "SENSOR", "BODY", "ACCESSIBILITY", "ALERT_WINDOW" }

\* the categories getPermissionCategory names
PermissionCategories ==
    { "Location", "Camera", "Microphone", "Contacts", "SMS", "Phone", "Storage",
      "Network", "Bluetooth", "Calendar", "Sensors", "Accessibility", "Overlay",
      "Other" }

\* the entries of the last getDetailedPermissions value
DetailEntries == { call.value[i] : i \in 1..Len(call.value) }

MediumPermissionAddsFour ==
    /\ \A p \in MEDIUM_RISK_PERMISSIONS : FamiliesOf(p) = {}
    /\ (IsCall("permissionPoints") /\ call.permission \in MEDIUM_RISK_PERMISSIONS) =>
           call.value = 4

\* a MEDIUM-tier permission was scored for an app of unknown category
MediumScoredForUnknown ==
    /\ IsCall("permissionPoints")
    /\ call.permission = "android.permission.INTERNET"
    /\ call.category = "unknown"
    /\ call.value = 4

(***************************************************************************)
(* Properties of the single-call functions of the API service.             *)
(***************************************************************************)
\* the functions whose catch block returns mock data
MockingFunctions == {"getMalwareAnalysis", "getDetailedPermissions", "getInstalledApps"}

\* the fixed mock data of a function that has some
MockDataOf(fn, now) ==
    IF fn = "getMalwareAnalysis" THEN getMockMalwareAnalysis
    ELSE IF fn = "getDetailedPermissions" THEN getMockPermissions
    ELSE getMockApps(now)

\* the function under way has returned or thrown
ApiReturned == api # Null /\ api.pc = "returned"

\* C29: getMalwareAnalysis, getDetailedPermissions and getInstalledApps
\* never reject: when the bridge call rejects or the native module is not
\* there they resolve with their mock data, so that a malware analysis that
\* failed reads threatLevel LOW, threatScore 15, isSafe true; analyzeApp and
\* scanFile reject with the error of the bridge.
MockOnFailureOrRethrow ==
    /\ (api # Null /\ api.fn \in MockingFunctions) => api.outcome.state # "rejected"
    /\ (ApiReturned /\ api.fn \in MockingFunctions
            /\ (api.bridge = "rejected" \/ ~android)) =>
           api.outcome = Fulfilled(MockDataOf(api.fn, clock))
    /\ (ApiReturned /\ api.fn = "getMalwareAnalysis" /\ api.bridge = "rejected") =>
           /\ api.outcome.state = "fulfilled"
           /\ api.outcome.value.threatLevel = "LOW"
           /\ api.outcome.value.threatScore = 15
           /\ api.outcome.value.isSafe
    /\ (ApiReturned /\ api.fn \in {"analyzeApp", "scanFile"}
            /\ api.bridge = "rejected") =>
           api.outcome = RejectedWith(BridgeError(api.fn))

\* the bridge rejected a malware analysis and the caller got the mock verdict
FailedMalwareAnalysisReadsSafe ==
    /\ ApiReturned
    /\ api.fn = "getMalwareAnalysis"
    /\ android
    /\ api.bridge = "rejected"
    /\ api.outcome = Fulfilled(getMockMalwareAnalysis)

(***************************************************************************)
(* Properties of the Home screen.                                          *)
(***************************************************************************)
HomeHandlers == {"fetchRecentFiles", "handleScan", "handleAppSelect"}

\* the number of invocations of a handler whose awaited call is pending
PendingCount(state, handler) == Cardinality(PendingOf(state, handler))

\* C30: an invocation of fetchRecentFiles, handleScan or handleAppSelect
\* sets the handler's flag (loading, appsLoading, scanning) to true; when
\* its awaited call settles, resolved or rejected, the flag is set to
\* false, even if another invocation of the handler is still pending; and
\* when no invocation of a handler is pending its flag is false.
FlagFollowsLatestInvocationOrSettlement ==
    /\ [](\A h \in HomeHandlers : PendingOf(home, h) = {} => ~home[FlagOf(h)])
    /\ [][\A h \in HomeHandlers :
              /\ PendingCount(home', h) > PendingCount(home, h) => home'[FlagOf(h)]
              /\ PendingCount(home', h) < PendingCount(home, h) => ~home'[FlagOf(h)]]_vars

\* the request of one press of the scan button settled and cleared
\* appsLoading while the request of another press is still pending
FlagClearedWhileRequestPending ==
    /\ ~home.appsLoading
    /\ PendingOf(home, "handleScan") # {}

(***************************************************************************)
(* Properties of the network analyzer.                                     *)
(***************************************************************************)
\* C15: exfilRiskScore is min(100, 20 x the number of distinct data
\* permissions requested) when INTERNET is requested and 0 when it is not,
\* whatever usesCleartext is.
ExfilScoreFromDistinctPermissions ==
    (netResult # Null /\ pm.packageInfo # Null) =>
        netResult.exfilRiskScore =
            IF "android.permission.INTERNET" \in RequestedPermissions
            THEN Min(100, 20 * Cardinality(RequestedPermissions
                                             \cap Elems(DATA_EXFIL_PERMISSIONS)))
            ELSE 0

\* C16: every result of the network analyzer, the one of a failed package
\* lookup included, has riskLevel HIGH from 60, MEDIUM from 30 and LOW below.
NetworkLevelFromThresholds ==
    netResult # Null =>
        netResult.riskLevel =
            IF netResult.exfilRiskScore >= 60 THEN "HIGH"
            ELSE IF netResult.exfilRiskScore >= 30 THEN "MEDIUM"
            ELSE "LOW"

====
